---------------------------- MODULE Spec2Model ----------------------------
(***************************************************************************)
(* PaceUp backend: the completion extractor of                             *)
(* TrainingPlanService.generate_training_plan, and the training-plan       *)
(* store with its endpoints (generate, get, delete, completion toggle,     *)
(* progress, completions) and the analysis lookup; the Strava store        *)
(* (athletes, activities, laps), the sync endpoints over it, the cached    *)
(* provider reads and the performance trends of the MCP server.            *)
(*                                                                         *)
(* A text is a sequence of one-character strings.  Positions are 1-based;  *)
(* where Python's str.find answers -1, the operators here answer 0.        *)
(***************************************************************************)
EXTENDS Integers, Sequences, FiniteSets, TLC

VARIABLES
    athletes,                  \* table athletes: the set of athlete ids
    athlete_profiles,          \* table athletes: the rows, id and profile
    activities,                \* table activities: set of rows
    laps,                      \* table laps: set of rows
    training_requests,         \* table training_requests: set of rows
    training_plans,            \* table training_plans: set of rows
    training_plan_activities,  \* table training_plan_activities: set of rows
    training_analyses,         \* table training_analyses: set of rows
    seq_ids,                   \* the autoincrement sequences of the tables
    now,                       \* the clock read by datetime.utcnow(); every
                               \* call that may write takes one tick
    response,                  \* the last endpoint call and what it answered
    ai_response_text,          \* extractor: the model's completion
    stage,                     \* extractor: scan -> repair -> parse -> validate
    json_text,                 \* extractor: the candidate span (<<>> is None)
    training_plan_json,        \* extractor: the parsed object (<<>> before)
    redis_enabled,             \* RedisService: connected at construction
    redis_data,                \* the cache: set of <<key, value>> pairs
    open_sessions,             \* the database sessions open and not closed
    in_flight                  \* the requests served step by step: where each
                               \* of them is and what it has read

stravavars == <<athlete_profiles, activities, laps>>
dbvars == <<athletes, training_requests, training_plans,
            training_plan_activities, training_analyses, seq_ids, stravavars>>
extvars == <<ai_response_text, stage, json_text, training_plan_json, in_flight>>
svcvars == <<redis_enabled, redis_data, open_sessions>>
vars == <<athletes, athlete_profiles, activities, laps, training_requests,
          training_plans, training_plan_activities, training_analyses,
          seq_ids, now, response, ai_response_text, stage, json_text,
          training_plan_json, redis_enabled, redis_data, open_sessions,
          in_flight>>

---------------------------------------------------------------------------
(* Text primitives.                                                        *)

\* the regex class \s
IsWs(c) == c \in {" ", "\n", "\t"}

Min(S) == CHOOSE x \in S : \A y \in S : x <= y

Max(S) == CHOOSE x \in S : \A y \in S : x >= y

\* s[i..] starts with the text p
StartsWithAt(s, i, p) ==
    /\ i >= 1
    /\ i + Len(p) - 1 <= Len(s)
    /\ \A k \in 1..Len(p) : s[i + k - 1] = p[k]

\* str.find(p, from): the first position >= from where p occurs, 0 for -1
Find(s, p, from) ==
    LET hits == {i \in from..Len(s) : StartsWithAt(s, i, p)}
    IN  IF hits = {} THEN 0 ELSE Min(hits)

\* str.strip(): the text without its leading and trailing whitespace
Strip(s) ==
    LET keep == {i \in 1..Len(s) : ~IsWs(s[i])}
    IN  IF keep = {} THEN <<>> ELSE SubSeq(s, Min(keep), Max(keep))

\* the position after the whitespace run that starts at i
RECURSIVE SkipWs(_, _)
SkipWs(s, i) ==
    IF i <= Len(s) /\ IsWs(s[i]) THEN SkipWs(s, i + 1) ELSE i

\* the fence of a markdown code block: three backticks, each written "~"
fence == <<"~", "~", "~">>

json_label == <<"j", "s", "o", "n">>

---------------------------------------------------------------------------
(* Span location: generate_training_plan, lines 97-151.                    *)

\* the depth-counted scan, for i in range(brace_start, len(text)): the
\* first position of a closing brace at which the count, brace_count at
\* position i, is back at zero; 0 when there is none
BraceScan(text, i, brace_count) ==
    LET count(j) == brace_count
                      + Cardinality({k \in i..j : text[k] = "{"})
                      - Cardinality({k \in i..j : text[k] = "}"})
        ends == {j \in i..Len(text) : text[j] = "}" /\ count(j) = 0}
    IN  IF ends = {} THEN 0 ELSE Min(ends)

\* the span text[brace_start .. brace_end] of a text, <<>> when the opening
\* brace is missing or the scan never closes
BalancedSpan(text) ==
    LET brace_start == Find(text, <<"{">>, 1)
        brace_end == IF brace_start = 0 THEN 0
                     ELSE BraceScan(text, brace_start, 0)
    IN  IF brace_end = 0 THEN <<>> ELSE SubSeq(text, brace_start, brace_end)

\* line 103, the fenced-block pattern (fence, optional label json, optional
\* whitespace, group 1: an opening brace and lazily anything, optional
\* whitespace, fence).  Where group 1 starts when the pattern is tried at
\* position p: after the fence, the optional label and whitespace an
\* opening brace must stand; 0 when it does not
GroupStartAt(text, p) ==
    IF ~StartsWithAt(text, p, fence) THEN 0
    ELSE LET a == p + Len(fence)
             b == IF StartsWithAt(text, a, json_label)
                  THEN SkipWs(text, a + Len(json_label)) ELSE 0
             c == SkipWs(text, a)
         IN  IF b # 0 /\ b <= Len(text) /\ text[b] = "{" THEN b
             ELSE IF c <= Len(text) /\ text[c] = "{" THEN c
             ELSE 0

\* where the lazy group 1 that starts at g ends: the last position before
\* the first run of whitespace and fence that follows the opening brace;
\* 0 when no closing fence follows
GroupEndAt(text, g) ==
    LET ends == {q \in (g + 1)..Len(text) :
                    StartsWithAt(text, SkipWs(text, q), fence)}
    IN  IF ends = {} THEN 0 ELSE Min(ends) - 1

\* re.search of the fenced-block pattern: group(1) of the leftmost match,
\* <<>> when nothing matches
CodeBlockMatch(text) ==
    LET starts == {p \in 1..Len(text) :
                      /\ GroupStartAt(text, p) # 0
                      /\ GroupEndAt(text, GroupStartAt(text, p)) # 0}
    IN  IF starts = {} THEN <<>>
        ELSE LET g == GroupStartAt(text, Min(starts))
             IN  SubSeq(text, g, GroupEndAt(text, g))

\* line 143, the greedy fallback pattern: from the first opening brace to
\* the last closing brace after it
RegexFallback(text) ==
    LET first == Find(text, <<"{">>, 1)
        closers == {i \in (first + 1)..Len(text) : text[i] = "}"}
    IN  IF first = 0 \/ closers = {} THEN <<>>
        ELSE SubSeq(text, first, Max(closers))

\* lines 99-146: json_text after the three strategies, <<>> for None
FindJsonText(text) ==
    LET code_block_match == CodeBlockMatch(text)
    IN  IF code_block_match # <<>>
        THEN BalancedSpan(Strip(code_block_match))
        ELSE IF Find(text, <<"{">>, 1) = 0 THEN <<>>
        ELSE IF BalancedSpan(text) # <<>> THEN BalancedSpan(text)
        ELSE RegexFallback(text)

\* the span left as it was found: what line 159 would be without its
\* substitution
KeepTrailingCommas(text) == text

\* a substitution that drops every comma of the span
RemoveEveryComma(text) == SelectSeq(text, LAMBDA c : c # ",")

\* line 159, the substitution that drops every comma followed by optional
\* whitespace and a closing brace or bracket
RemoveTrailingCommas(text) ==
    LET stays(i) == ~ /\ text[i] = ","
                      /\ SkipWs(text, i + 1) <= Len(text)
                      /\ text[SkipWs(text, i + 1)] \in {"}", "]"}
        kept == SelectSeq([i \in 1..Len(text) |-> i], stays)
    IN  [k \in 1..Len(kept) |-> text[kept[k]]]

---------------------------------------------------------------------------
(* json.loads (line 163) on the part of JSON the completions use: objects, *)
(* arrays, strings without escapes, unsigned integers, whitespace.  A      *)
(* parsed value is a record tagged by kind; an object keeps its members in *)
(* the order read, as <<key, value>> pairs.                                *)

IsDigit(c) == c \in {"0", "1", "2", "3", "4", "5", "6", "7", "8", "9"}

JsonFail == [ok |-> FALSE, val |-> <<>>, next |-> 0]

JsonOk(v, n) == [ok |-> TRUE, val |-> v, next |-> n]

\* the position after the digit run that starts at i
RECURSIVE SkipDigits(_, _)
SkipDigits(s, i) ==
    IF i <= Len(s) /\ IsDigit(s[i]) THEN SkipDigits(s, i + 1) ELSE i

\* a string literal whose opening quote stands at i; a control character
\* inside it is an error (strict mode)
ParseString(s, i) ==
    LET close == Find(s, <<"\"">>, i + 1)
    IN  IF close = 0 THEN JsonFail
        ELSE IF \E k \in (i + 1)..(close - 1) : s[k] \in {"\n", "\t"}
        THEN JsonFail
        ELSE JsonOk([kind |-> "string", chars |-> SubSeq(s, i + 1, close - 1)],
                    close + 1)

\* the one element of a singleton set
Only(S) == CHOOSE x \in S : TRUE

RECURSIVE ParseValue(_, _), ParseMembers(_, _, _), ParseElements(_, _, _)

\* one value, leading whitespace skipped
ParseValue(s, i) ==
    LET j == SkipWs(s, i)
    IN  IF j > Len(s) THEN JsonFail
        ELSE IF s[j] = "{"
        THEN IF SkipWs(s, j + 1) <= Len(s) /\ s[SkipWs(s, j + 1)] = "}"
             THEN JsonOk([kind |-> "object", members |-> <<>>],
                         SkipWs(s, j + 1) + 1)
             ELSE ParseMembers(s, j + 1, <<>>)
        ELSE IF s[j] = "["
        THEN IF SkipWs(s, j + 1) <= Len(s) /\ s[SkipWs(s, j + 1)] = "]"
             THEN JsonOk([kind |-> "array", items |-> <<>>],
                         SkipWs(s, j + 1) + 1)
             ELSE ParseElements(s, j + 1, <<>>)
        ELSE IF s[j] = "\"" THEN ParseString(s, j)
        ELSE IF IsDigit(s[j])
        THEN LET e == IF s[j] = "0" THEN j + 1 ELSE SkipDigits(s, j)
             IN  JsonOk([kind |-> "number", digits |-> SubSeq(s, j, e - 1)], e)
        ELSE JsonFail

\* the members of an object from position i on: "key" : value, then a comma
\* and another member, or the closing brace.  (key and v are bound over
\* singleton sets so that each is parsed once.)
ParseMembers(s, i, acc) ==
    LET j == SkipWs(s, i)
    IN  IF j > Len(s) \/ s[j] # "\"" THEN JsonFail
        ELSE Only({
            IF ~key.ok THEN JsonFail
            ELSE IF SkipWs(s, key.next) > Len(s) \/ s[SkipWs(s, key.next)] # ":"
            THEN JsonFail
            ELSE Only({
                IF ~v.ok \/ SkipWs(s, v.next) > Len(s) THEN JsonFail
                ELSE IF s[SkipWs(s, v.next)] = "}"
                THEN JsonOk([kind |-> "object",
                             members |-> Append(acc, <<key.val.chars, v.val>>)],
                            SkipWs(s, v.next) + 1)
                ELSE IF s[SkipWs(s, v.next)] = ","
                THEN ParseMembers(s, SkipWs(s, v.next) + 1,
                                  Append(acc, <<key.val.chars, v.val>>))
                ELSE JsonFail
                : v \in {ParseValue(s, SkipWs(s, key.next) + 1)}})
            : key \in {ParseString(s, j)}})

\* the items of an array from position i on
ParseElements(s, i, acc) ==
    Only({
        IF ~v.ok \/ SkipWs(s, v.next) > Len(s) THEN JsonFail
        ELSE IF s[SkipWs(s, v.next)] = "]"
        THEN JsonOk([kind |-> "array", items |-> Append(acc, v.val)],
                    SkipWs(s, v.next) + 1)
        ELSE IF s[SkipWs(s, v.next)] = ","
        THEN ParseElements(s, SkipWs(s, v.next) + 1, Append(acc, v.val))
        ELSE JsonFail
        : v \in {ParseValue(s, i)}})

\* json.loads: one value and nothing but whitespace after it
JsonLoads(s) ==
    Only({IF v.ok /\ SkipWs(s, v.next) > Len(s) THEN v ELSE JsonFail
          : v \in {ParseValue(s, 1)}})

training_plan_key == <<"t", "r", "a", "i", "n", "i", "n", "g", "_", "p", "l", "a", "n">>

days_key == <<"d", "a", "y", "s">>

\* key in obj, for a parsed object
HasKey(obj, key) == \E k \in 1..Len(obj.members) : obj.members[k][1] = key

\* obj[key]: of members with the same key the last one read stays
GetKey(obj, key) ==
    obj.members[Max({k \in 1..Len(obj.members) : obj.members[k][1] = key})][2]

---------------------------------------------------------------------------
(* Extraction as a whole: generate_training_plan, lines 97-184.            *)

NoJsonFound == "Could not find JSON in AI response"

InvalidJson == "Invalid JSON in AI response"

MissingKey == "Training plan JSON missing 'training_plan' key"

\* line 183: 'training_plan' not in training_plan_json.  The span starts
\* with an opening brace, so what json.loads returns for it is an object.
LacksTrainingPlan(parsed) == ~HasKey(parsed, training_plan_key)

\* lines 97-184: the ValueError raised, or "" and the parsed object
ExtractPlan(text) ==
    Only({
        IF found = <<>> THEN [error |-> NoJsonFound, json |-> <<>>]
        ELSE Only({
            IF ~loaded.ok THEN [error |-> InvalidJson, json |-> <<>>]
            ELSE IF LacksTrainingPlan(loaded.val)
            THEN [error |-> MissingKey, json |-> <<>>]
            ELSE [error |-> "", json |-> loaded.val]
            : loaded \in {JsonLoads(RemoveTrailingCommas(found))}})
        : found \in {FindJsonText(text)}})

---------------------------------------------------------------------------
(* The completions the extractor is run on: the plan object of spec 6 as   *)
(* the prompt asks for it (lines 270-298), in the shapes of spec 4.3.      *)

MaxDays == 2

Quoted(chars) == <<"\"">> \o chars \o <<"\"">>

RECURSIVE Join(_, _)
Join(items, sep) ==
    IF Len(items) = 0 THEN <<>>
    ELSE IF Len(items) = 1 THEN items[1]
    ELSE items[1] \o sep \o Join(Tail(items), sep)

\* tc is the trailing comma written before the closing bracket (<<>>: none)
JObject(members, tc) == <<"{">> \o Join(members, <<",">>) \o tc \o <<"}">>

JArray(items, tc) == <<"[">> \o Join(items, <<",">>) \o tc \o <<"]">>

Member(key, value) == Quoted(key) \o <<":", " ">> \o value

details_key == <<"d", "e", "t", "a", "i", "l", "s">>

week_key == <<"w", "e", "e", "k">>

\* one session of a week
DayText(details, tc) == JObject(<<Member(details_key, Quoted(details))>>, tc)

\* a week of n sessions
WeekText(n, details, tc) ==
    JObject(<<Member(week_key, <<"1">>),
              Member(days_key, JArray([k \in 1..n |-> DayText(details, tc)], tc))>>, tc)

\* the plan object with one week of n sessions
PlanText(n, details, tc) ==
    JObject(<<Member(training_plan_key, JArray(<<WeekText(n, details, tc)>>, tc))>>, tc)

\* what a session's details say: plain words, or words with a brace
DetailTexts == {<<"r", "u", "n">>, <<"4", "x", "}">>, <<"{", "x">>,
                <<"{", "a", "}">>, <<"a", ",", "]">>}

TrailingCommas == {<<>>, <<",">>, <<",", "\n">>}

\* prose after the object
Proses == {<<"\n", "G", "o", "!">>,
           <<" ", "}", " ", "{">>,
           <<"\n">> \o fence \o <<"{", "x", "}">> \o fence}

CleanCompletions ==
    {PlanText(n, d, <<>>) : n \in 1..MaxDays, d \in DetailTexts}

CommaCompletions ==
    {PlanText(n, d, tc) : n \in 1..MaxDays, d \in DetailTexts,
                          tc \in TrailingCommas \ {<<>>}}

FencedCompletions ==
    {pre \o fence \o label \o ws \o PlanText(n, d, tc) \o ws \o fence \o post :
        n \in 1..MaxDays, d \in DetailTexts, tc \in {<<>>, <<",">>},
        label \in {<<>>, json_label}, ws \in {<<>>, <<"\n">>},
        pre \in {<<>>, <<"{", "\n">>}, post \in {<<>>, <<"\n", "o", "k">>}}

ProseCompletions ==
    {PlanText(n, d, tc) \o prose :
        n \in 1..MaxDays, d \in DetailTexts, tc \in {<<>>, <<",">>},
        prose \in Proses}

\* completions that are none of the four shapes
OtherCompletions ==
    {<<"n", "o">>,
     <<"{", "{", "}">>,
     fence \o <<"{", "{", "}">> \o fence,
     PlanText(1, <<"r", "u", "n">>, <<>>) \o <<"\n">> \o fence \o <<"{">> \o fence,
     JObject(<<Member(week_key, <<"1">>)>>, <<>>),
     JObject(<<Member(training_plan_key, JArray(<<>>, <<>>))>>, <<>>),
     <<"{", "\"", "a", "\"", "}">>}

Completions ==
    CleanCompletions \cup CommaCompletions \cup FencedCompletions
        \cup ProseCompletions \cup OtherCompletions

---------------------------------------------------------------------------
(* The store.  A row is a record; an optional column is a set with at most *)
(* one element ({} is NULL, None).                                         *)

\* the last tick of the clock: a run holds at most MaxClock - 1 calls that
\* write
MaxClock == 5

AthleteIds == {1, 2}

\* what the completion toggle may address: ActivityCompletionRequest
WeekNumbers == {1}

DayNames == {"Monday"}

ActivityIndexes == {0, 1}

---------------------------------------------------------------------------
(* The sections of a completion: _extract_section, lines 372-393, and its  *)
(* two calls at lines 154-155.                                             *)

insights_marker ==
    <<"I", "n", "s", "i", "g", "h", "t", "s", " ", "o", "n", " ",
      "t", "h", "e", " ", "O", "b", "j", "e", "c", "t", "i", "v",
      "e">>

summary_marker ==
    <<"S", "u", "m", "m", "a", "r", "y", " ", "o", "f", " ", "t",
      "h", "e", " ", "P", "l", "a", "n", " ", "O", "b", "j", "e",
      "c", "t", "i", "v", "e">>

summary_end == <<"S", "u", "m", "m", "a", "r", "y">>

json_end == <<"J", "S", "O", "N">>

\* lines 190-191: the texts that stand in for an empty section
DefaultInsights ==
    <<"T", "r", "a", "i", "n", "i", "n", "g", " ", "p", "l", "a",
      "n", " ", "g", "e", "n", "e", "r", "a", "t", "e", "d", " ",
      "s", "u", "c", "c", "e", "s", "s", "f", "u", "l", "l", "y",
      ".">>

DefaultSummary ==
    <<"A", " ", "p", "e", "r", "s", "o", "n", "a", "l", "i", "z",
      "e", "d", " ", "t", "r", "a", "i", "n", "i", "n", "g", " ",
      "p", "l", "a", "n", " ", "h", "a", "s", " ", "b", "e", "e",
      "n", " ", "c", "r", "e", "a", "t", "e", "d", " ", "f", "o",
      "r", " ", "y", "o", "u", ".">>

\* a section that is empty unless both markers are found
SectionBetweenMarkers(text, start_marker, end_marker) ==
    LET start_idx == Find(text, start_marker, 1)
        from == start_idx + Len(start_marker)
        end_idx == IF start_idx = 0 THEN 0 ELSE Find(text, end_marker, from)
    IN  IF end_idx = 0 THEN <<>> ELSE Strip(SubSeq(text, from, end_idx - 1))

\* _extract_section(text, start_marker, end_marker)
ExtractSection(text, start_marker, end_marker) ==
    LET start_idx == Find(text, start_marker, 1)
        from == start_idx + Len(start_marker)
        end_idx == Find(text, end_marker, from)
    IN  IF start_idx = 0 THEN <<>>
        ELSE Strip(SubSeq(text, from,
                          IF end_idx = 0 THEN Len(text) ELSE end_idx - 1))

\* "section or default"
OrDefault(section, default) == IF section = <<>> THEN default ELSE section

\* the plan object the section completions carry
SectionPlan == JObject(<<Member(training_plan_key, JArray(<<>>, <<>>))>>, <<>>)

\* completions with both sections, with an insights section that no end
\* marker follows, with an insights section of whitespace, with no marker
\* at all, and with markers but no span
SectionOutputs ==
    {insights_marker \o <<" ", "a", "\n">> \o summary_marker \o <<" ", "b", "\n">>
        \o json_end \o <<"\n">> \o SectionPlan,
     insights_marker \o <<" ", "a", " ">> \o SectionPlan,
     insights_marker \o <<"\n">> \o summary_marker \o <<" ", "b", " ">> \o SectionPlan,
     SectionPlan,
     insights_marker \o <<" ", "a">>}

\* the completions the model gives in a generation call
ModelOutputs ==
    {JObject(<<Member(training_plan_key,
         JArray(<<JObject(<<Member(days_key, JArray(<<JObject(<<>>, <<>>)>>, <<>>))>>, <<>>),
                  JObject(<<Member(days_key,
                      JArray(<<JObject(<<>>, <<>>), JObject(<<>>, <<>>)>>, <<>>))>>, <<>>)>>,
                <<",">>))>>, <<>>),
     JObject(<<Member(training_plan_key, JArray(<<>>, <<>>))>>, <<>>),
     JObject(<<Member(week_key, <<"1">>)>>, <<>>),
     <<"{", "\"", "a", "\"", "}">>,
     <<"n", "o">>}

\* ExtractPlan on each completion (<<>>: the call raised, there is no text)
ExtractionOf == [t \in ModelOutputs \cup SectionOutputs \cup {<<>>} |-> ExtractPlan(t)]

\* lines 154-155 on each completion: the two sections
SectionsOf ==
    [t \in ModelOutputs \cup SectionOutputs \cup {<<>>} |->
        [insights |-> ExtractSection(t, insights_marker, summary_end),
         summary |-> ExtractSection(t, summary_marker, json_end)]]

\* strava_db_service.get_first_athlete(db): the athlete of the caller, None
\* when no athlete has been synced.  The query names no order, so with
\* several athletes any of them may come first.
get_first_athlete == IF athletes = {} THEN {{}} ELSE {{a} : a \in athletes}

\* db.query(T).filter(T.id == id).first() on a table with primary key id
ById(table, id) == {r \in table : r.id = id}

None == <<>>

\* what an endpoint call was (op, the id in its path, the key and flag of
\* its payload), what it read on its way (saw: the completion rows its
\* query found, or what the model and the commit did; caller: the athlete
\* get_first_athlete gave) and what it answered
Reply(op, id, arg, saw, caller, status, detail, body) ==
    [op |-> op, id |-> id, arg |-> arg, saw |-> saw, caller |-> caller,
     status |-> status, detail |-> detail, body |-> body]

NoArg == [week_number |-> 0, day |-> "", activity_index |-> 0,
          is_completed |-> FALSE]

AthleteNotFound == "Athlete not found. Please sync activities first."

\* the checks without the comparison of the owner: what the endpoints would
\* answer if the record's athlete_id were never looked at
AccessStatusNoOwner(found, athlete) ==
    IF found = {} THEN 404
    ELSE IF athlete = {} THEN 404
    ELSE 200

\* the checks every by-id endpoint starts with (training.py 147-161 and
\* alike): 404 without the record, 404 without an athlete, 403 when the
\* record is another athlete's, else 200
AccessStatus(found, athlete) ==
    IF found = {} THEN 404
    ELSE IF athlete = {} THEN 404
    ELSE IF \E r \in found : r.athlete_id \notin athlete THEN 403
    ELSE 200

AccessDetail(found, athlete, what) ==
    IF found = {} THEN what
    ELSE IF athlete = {} THEN AthleteNotFound
    ELSE IF \E r \in found : r.athlete_id \notin athlete THEN "Access denied"
    ELSE ""

---------------------------------------------------------------------------
(* Plan generation: training.py 36-84 over training_plan_service.py 26-209 *)

\* the request row never added: lines 49-62 left out
SkipTrainingRequest(requests, row) == requests

\* lines 49-62: the request row is added and committed
SaveTrainingRequest(requests, row) == requests \cup {row}

\* a rollback that would take the request row with it: what lines 206-209
\* would do had the row not been committed at line 61
RollbackDropsRequest(requests, row) == requests \ {row}

\* lines 206-209: db.rollback() after a failure undoes what is not yet
\* committed; the request row was committed at line 61
RollbackAfterFailure(requests, row) == requests

\* lines 187-197: the plan row
NewTrainingPlan(id, request_id, athlete_id, json, insights, summary) ==
    [id |-> id, request_id |-> request_id, athlete_id |-> athlete_id,
     insights |-> OrDefault(insights, DefaultInsights),
     summary |-> OrDefault(summary, DefaultSummary),
     training_plan_json |-> json]

\* lines 148-184 seen from the endpoint: the three extraction failures
\* are ValueErrors, answered 400 with the message as detail (training.py
\* 79-81); any other exception is answered 500 (82-84)
GenerationStatus(call_ok, extraction, commit_ok) ==
    IF ~call_ok THEN 500
    ELSE IF extraction.error # "" THEN 400
    ELSE IF ~commit_ok THEN 500
    ELSE 200

\* one message for every extraction failure: what the endpoint would answer
\* if the three ValueErrors carried the same text
GenerationDetailCollapsed(call_ok, extraction, commit_ok) ==
    IF ~call_ok THEN "Failed to generate training plan"
    ELSE IF extraction.error # "" THEN InvalidJson
    ELSE IF ~commit_ok THEN "Failed to generate training plan"
    ELSE "Training plan generated successfully"

\* the detail of the answer: str(e) of the ValueError (of an unparseable span
\* the message goes on with the decoder's words, left out here), else the
\* endpoint's own text
GenerationDetail(call_ok, extraction, commit_ok) ==
    IF ~call_ok THEN "Failed to generate training plan"
    ELSE IF extraction.error # "" THEN extraction.error
    ELSE IF ~commit_ok THEN "Failed to generate training plan"
    ELSE "Training plan generated successfully"

\* POST /training/generate.  call_ok: the model call returns; text: what it
\* returns; commit_ok: the commit of the plan row (line 200) goes through
GenerateFrom(outputs) ==
    /\ now < MaxClock
    /\ now' = now + 1
    /\ \E athlete \in get_first_athlete :
        IF athlete = {}
        THEN \* the HTTPException of line 52 is caught at line 82
             /\ response' = Reply("generate", 0, NoArg, {}, athlete, 500,
                                  "Failed to generate training plan", None)
             /\ UNCHANGED dbvars
        ELSE \E a \in athlete, call_ok \in BOOLEAN, commit_ok \in BOOLEAN :
             \E text \in IF call_ok THEN outputs ELSE {<<>>} :
             LET training_request == [id |-> seq_ids.training_requests,
                                      athlete_id |-> a]
                 extraction == ExtractionOf[text]
                 status == GenerationStatus(call_ok, extraction, commit_ok)
                 training_plan == NewTrainingPlan(seq_ids.training_plans,
                                      training_request.id, a, extraction.json,
                                      SectionsOf[text].insights,
                                      SectionsOf[text].summary)
                 saved == SaveTrainingRequest(training_requests, training_request)
             IN  /\ training_requests' =
                        IF status = 200 THEN saved
                        ELSE RollbackAfterFailure(saved, training_request)
                 /\ training_plans' =
                        IF status = 200 THEN training_plans \cup {training_plan}
                        ELSE training_plans
                 /\ seq_ids' = [seq_ids EXCEPT
                        !.training_requests = @ + 1,
                        !.training_plans = IF status = 200 THEN @ + 1 ELSE @]
                 /\ response' = Reply("generate", training_request.id, NoArg,
                        [call_ok |-> call_ok, text |-> text, commit_ok |-> commit_ok],
                        athlete, status,
                        GenerationDetail(call_ok, extraction, commit_ok),
                        IF status = 200 THEN <<training_plan>> ELSE None)
                 /\ UNCHANGED <<athletes, training_plan_activities, training_analyses,
                               stravavars>>
    /\ UNCHANGED <<extvars, svcvars>>

\* the generation over the completions of the training endpoints
GenerateTrainingPlan == GenerateFrom(ModelOutputs)

\* the generation over the completions that carry sections
GenerateWithSections == GenerateFrom(SectionOutputs)

---------------------------------------------------------------------------
(* The endpoints that address a plan by id: training.py 136-365.           *)

PlanNotFound == "Training plan not found"

\* GET /training/plan/{plan_id}
GetPlan(plan_id) ==
    /\ \E athlete \in get_first_athlete :
        LET plan == ById(training_plans, plan_id)
            status == AccessStatus(plan, athlete)
        IN  response' = Reply("get_plan", plan_id, NoArg, {}, athlete, status,
                AccessDetail(plan, athlete, PlanNotFound),
                IF status = 200 THEN <<CHOOSE r \in plan : TRUE>> ELSE None)
    /\ UNCHANGED <<dbvars, now, extvars, svcvars>>

\* line 201, db.delete(plan): the plan goes
PlansAfterDelete(plans, plan) == plans \ plan

\* a delete without the cascade: the completion rows stay
ActivitiesKept(rows, plan_id) == rows

\* line 201 under the relationship of schema.py 211 (cascade all,
\* delete-orphan): the plan's completion rows go with it
ActivitiesAfterDelete(rows, plan_id) == {r \in rows : r.plan_id # plan_id}

\* DELETE /training/plan/{plan_id}
DeletePlan(plan_id) ==
    /\ now < MaxClock
    /\ now' = now + 1
    /\ \E athlete \in get_first_athlete :
        LET plan == ById(training_plans, plan_id)
            status == AccessStatus(plan, athlete)
        IN  /\ response' = Reply("delete_plan", plan_id, NoArg, {}, athlete, status,
                  IF status = 200 THEN "Training plan deleted successfully"
                  ELSE AccessDetail(plan, athlete, PlanNotFound), None)
            /\ training_plans' =
                  IF status = 200 THEN PlansAfterDelete(training_plans, plan)
                  ELSE training_plans
            /\ training_plan_activities' =
                  IF status = 200
                  THEN ActivitiesAfterDelete(training_plan_activities, plan_id)
                  ELSE training_plan_activities
    /\ UNCHANGED <<athletes, training_requests, training_analyses, seq_ids,
                   stravavars, extvars, svcvars>>

\* lines 244-249: the completion rows under the composite key
FindActivity(rows, plan_id, week_number, day, activity_index) ==
    {r \in rows : /\ r.plan_id = plan_id
                  /\ r.week_number = week_number
                  /\ r.day = day
                  /\ r.activity_index = activity_index}

\* a timestamp that is never written
CompletedAtNever(is_completed, utcnow) == {}

\* lines 254 and 263: datetime.utcnow() if completion.is_completed else None
CompletedAt(is_completed, utcnow) == IF is_completed THEN {utcnow} ELSE {}

\* an update that writes the timestamp on completion and otherwise leaves
\* it as it was
UpdatedActivityStale(activity, is_completed, utcnow) ==
    [activity EXCEPT !.is_completed = is_completed,
                     !.completed_at = IF is_completed THEN {utcnow} ELSE @]

\* lines 252-254: the existing record updated
UpdatedActivity(activity, is_completed, utcnow) ==
    [activity EXCEPT !.is_completed = is_completed,
                     !.completed_at = CompletedAt(is_completed, utcnow)]

\* a new record stamped whether or not it is completed
NewActivityStamped(id, plan_id, week_number, day, activity_index, is_completed, utcnow) ==
    [id |-> id, plan_id |-> plan_id, week_number |-> week_number, day |-> day,
     activity_index |-> activity_index, is_completed |-> is_completed,
     completed_at |-> {utcnow}]

\* lines 257-264: the new record
NewActivity(id, plan_id, week_number, day, activity_index, is_completed, utcnow) ==
    [id |-> id, plan_id |-> plan_id, week_number |-> week_number, day |-> day,
     activity_index |-> activity_index, is_completed |-> is_completed,
     completed_at |-> CompletedAt(is_completed, utcnow)]

\* PUT /training/plan/{plan_id}/activity
UpdateActivityCompletion(plan_id, week_number, day, activity_index, is_completed) ==
    /\ now < MaxClock
    /\ now' = now + 1
    /\ \E athlete \in get_first_athlete :
        LET plan == ById(training_plans, plan_id)
            status == AccessStatus(plan, athlete)
            found == FindActivity(training_plan_activities, plan_id,
                                  week_number, day, activity_index)
            created == NewActivity(seq_ids.training_plan_activities, plan_id,
                           week_number, day, activity_index, is_completed, now)
            arg == [week_number |-> week_number, day |-> day,
                    activity_index |-> activity_index,
                    is_completed |-> is_completed]
        IN  IF status # 200
            THEN /\ response' = Reply("update_activity", plan_id, arg, found, athlete, status,
                        AccessDetail(plan, athlete, PlanNotFound), None)
                 /\ UNCHANGED <<training_plan_activities, seq_ids>>
            ELSE IF found # {}
            THEN \E activity \in found :
                 /\ training_plan_activities' =
                        (training_plan_activities \ {activity})
                            \cup {UpdatedActivity(activity, is_completed, now)}
                 /\ response' = Reply("update_activity", plan_id, arg, found, athlete, 200, "",
                        <<UpdatedActivity(activity, is_completed, now)>>)
                 /\ UNCHANGED seq_ids
            ELSE /\ training_plan_activities' = training_plan_activities \cup {created}
                 /\ seq_ids' = [seq_ids EXCEPT !.training_plan_activities = @ + 1]
                 /\ response' = Reply("update_activity", plan_id, arg, found, athlete, 200, "",
                        <<created>>)
    /\ UNCHANGED <<athletes, training_requests, training_plans,
                   training_analyses, stravavars, extvars, svcvars>>

---------------------------------------------------------------------------
(* The toggle and the deletion served step by step, for requests that run  *)
(* at the same time: training.py 171-212 and 215-278 over the constraints  *)
(* of schema.py 214-236.  What a session writes reaches the tables at its  *)
(* commit.                                                                 *)

\* the requests that may be under way at once
Requests == {1, 2}

Idle == [pc |-> "idle", op |-> "none", plan_id |-> 0, arg |-> NoArg,
         found |-> {}, status |-> 0]

NoRequests == [p \in Requests |-> Idle]

\* the table without its unique constraint
NoUniqueKey(rows, row) == FALSE

\* the table without its foreign key
NoForeignKey(plans, row) == FALSE

\* schema.py 234-236, uq_plan_activity: a row may not be inserted under a
\* key another row has
UniqueViolation(rows, row) ==
    FindActivity(rows, row.plan_id, row.week_number, row.day,
                 row.activity_index) # {}

\* schema.py 219, ForeignKey("training_plans.id"): a row may not be
\* inserted for a plan that is not stored
ForeignKeyViolation(plans, row) == ById(plans, row.plan_id) = {}

\* lines 229-241 of the toggle, 185-198 of the deletion: the plan, the
\* athlete and the owner are read; a request that fails here is answered
Begin(p, op, plan_id, arg) ==
    /\ in_flight[p].pc \in {"idle", "done"}
    /\ \E athlete \in get_first_athlete :
        LET status == AccessStatus(ById(training_plans, plan_id), athlete)
        IN  in_flight' = [in_flight EXCEPT ![p] =
                [pc |-> IF status = 200 THEN "checked" ELSE "done",
                 op |-> op, plan_id |-> plan_id, arg |-> arg, found |-> {},
                 status |-> IF status = 200 THEN 0 ELSE status]]
    /\ UNCHANGED <<dbvars, now, response, ai_response_text, stage, json_text,
                   training_plan_json, svcvars>>

BeginToggle(p, plan_id, week_number, day, activity_index, is_completed) ==
    Begin(p, "update_activity", plan_id,
          [week_number |-> week_number, day |-> day,
           activity_index |-> activity_index, is_completed |-> is_completed])

BeginDelete(p, plan_id) == Begin(p, "delete_plan", plan_id, NoArg)

\* lines 244-249: the query of the completion record
QueryToggle(p) ==
    /\ in_flight[p].pc = "checked"
    /\ in_flight[p].op = "update_activity"
    /\ in_flight' = [in_flight EXCEPT
          ![p].pc = "queried",
          ![p].found = FindActivity(training_plan_activities,
                           in_flight[p].plan_id, in_flight[p].arg.week_number,
                           in_flight[p].arg.day,
                           in_flight[p].arg.activity_index)]
    /\ UNCHANGED <<dbvars, now, response, ai_response_text, stage, json_text,
                   training_plan_json, svcvars>>

\* lines 251-278: the record is updated or created and the session
\* committed.  The insert fails on the unique key and on the foreign key,
\* the update (or the refresh after it) on a row that is gone; the handler
\* then rolls back and answers 500
CommitToggle(p) ==
    /\ in_flight[p].pc = "queried"
    /\ LET call == in_flight[p]
           created == NewActivity(seq_ids.training_plan_activities,
                          call.plan_id, call.arg.week_number, call.arg.day,
                          call.arg.activity_index, call.arg.is_completed, now)
           stored == {r \in training_plan_activities :
                         \E activity \in call.found : r.id = activity.id}
           raises == IF call.found = {}
                     THEN \/ UniqueViolation(training_plan_activities, created)
                          \/ ForeignKeyViolation(training_plans, created)
                     ELSE stored = {}
       IN  /\ training_plan_activities' =
                 IF raises THEN training_plan_activities
                 ELSE IF call.found = {}
                 THEN training_plan_activities \cup {created}
                 ELSE (training_plan_activities \ stored)
                         \cup {UpdatedActivity(r, call.arg.is_completed, now) :
                                  r \in stored}
           /\ seq_ids' = IF raises \/ call.found # {} THEN seq_ids
                         ELSE [seq_ids EXCEPT !.training_plan_activities = @ + 1]
           /\ in_flight' = [in_flight EXCEPT
                 ![p].pc = "done",
                 ![p].status = IF raises THEN 500 ELSE 200]
    /\ UNCHANGED <<athletes, training_requests, training_plans,
                   training_analyses, stravavars, now, response,
                   ai_response_text, stage, json_text, training_plan_json,
                   svcvars>>

\* lines 200-212: the plan is deleted, its completion rows with it (the
\* session deletes the ones it loaded, the foreign key's ON DELETE CASCADE
\* the others), and the session committed; the delete of a plan that is
\* gone raises, and the handler rolls back and answers 500
CommitDelete(p) ==
    /\ in_flight[p].pc = "checked"
    /\ in_flight[p].op = "delete_plan"
    /\ LET plan == ById(training_plans, in_flight[p].plan_id)
       IN  /\ training_plans' = PlansAfterDelete(training_plans, plan)
           /\ training_plan_activities' =
                 IF plan = {} THEN training_plan_activities
                 ELSE ActivitiesAfterDelete(training_plan_activities,
                                            in_flight[p].plan_id)
           /\ in_flight' = [in_flight EXCEPT
                 ![p].pc = "done",
                 ![p].status = IF plan = {} THEN 500 ELSE 200]
    /\ UNCHANGED <<athletes, training_requests, training_analyses, seq_ids,
                   stravavars, now, response, ai_response_text, stage,
                   json_text, training_plan_json, svcvars>>

---------------------------------------------------------------------------
(* Progress: training.py 281-328.                                          *)

EmptyList == [kind |-> "array", items |-> <<>>]

\* d.get(key, []) on a parsed object
GetOrEmpty(obj, key) == IF HasKey(obj, key) THEN GetKey(obj, key) ELSE EmptyList

\* what a for loop over a parsed value visits: the items of a list, the
\* keys of a dict, the characters of a string; a number is not iterable
CanIterate(v) == v.kind \in {"array", "object", "string"}

Visited(v) ==
    IF v.kind = "array" THEN v.items
    ELSE IF v.kind = "object"
    THEN [k \in 1..Len(v.members) |-> [kind |-> "string", chars |-> v.members[k][1]]]
    ELSE [k \in 1..Len(v.chars) |-> [kind |-> "string", chars |-> <<v.chars[k]>>]]

\* len(v) of a list, a dict (its distinct keys) or a string; a number has none
HasLen(v) == v.kind \in {"array", "object", "string"}

LenOf(v) ==
    IF v.kind = "array" THEN Len(v.items)
    ELSE IF v.kind = "object"
    THEN Cardinality({v.members[k][1] : k \in 1..Len(v.members)})
    ELSE Len(v.chars)

\* lines 307-309: the loop over the weeks from week k on, total_activities
\* so far; raised when week.get or len() raises
RECURSIVE CountWeeks(_, _, _)
CountWeeks(weeks, k, total_activities) ==
    IF k > Len(weeks) THEN [raised |-> FALSE, total |-> total_activities]
    ELSE IF weeks[k].kind # "object" THEN [raised |-> TRUE, total |-> 0]
    ELSE IF ~HasLen(GetOrEmpty(weeks[k], days_key)) THEN [raised |-> TRUE, total |-> 0]
    ELSE CountWeeks(weeks, k + 1,
                    total_activities + LenOf(GetOrEmpty(weeks[k], days_key)))

\* lines 306-309 on the stored plan tree
TotalActivities(plan_json) ==
    LET tree == GetOrEmpty(plan_json, training_plan_key)
    IN  IF ~CanIterate(tree) THEN [raised |-> TRUE, total |-> 0]
        ELSE CountWeeks(Visited(tree), 1, 0)

\* the count of all the plan's rows, completed or not
RecordedActivities(rows, plan_id) ==
    Cardinality({r \in rows : r.plan_id = plan_id})

\* lines 312-315: the count of the plan's rows with is_completed true
CompletedActivities(rows, plan_id) ==
    Cardinality({r \in rows : r.plan_id = plan_id /\ r.is_completed})

\* n / d cut off at the integer below
RoundDown(n, d) == n \div d

\* n / d rounded to an integer, a tie going to the even neighbour
RoundHalfEven(n, d) ==
    LET q == n \div d
        r == n % d
    IN  IF 2 * r < d THEN q
        ELSE IF 2 * r > d THEN q + 1
        ELSE IF q % 2 = 0 THEN q ELSE q + 1

\* lines 317 and 322: round(completed / total * 100, 2), in hundredths of a
\* percent; 0.0 when total is not positive.  (The float arithmetic differs
\* from the exact quotient by far less than half a hundredth; it can change
\* the result only where the exact quotient is a tie.)
ProgressPercentage(completed_activities, total_activities) ==
    IF total_activities > 0
    THEN RoundHalfEven(completed_activities * 10000, total_activities)
    ELSE 0

\* GET /training/plan/{plan_id}/progress
GetPlanProgress(plan_id) ==
    /\ \E athlete \in get_first_athlete :
        LET plan == ById(training_plans, plan_id)
            status == AccessStatus(plan, athlete)
            walk == TotalActivities((CHOOSE r \in plan : TRUE).training_plan_json)
            completed == CompletedActivities(training_plan_activities, plan_id)
        IN  IF status # 200
            THEN response' = Reply("get_progress", plan_id, NoArg, {}, athlete, status,
                     AccessDetail(plan, athlete, PlanNotFound), None)
            ELSE IF walk.raised
            THEN response' = Reply("get_progress", plan_id, NoArg, {}, athlete, 500,
                     "Failed to get plan progress", None)
            ELSE response' = Reply("get_progress", plan_id, NoArg, {}, athlete, 200, "",
                     <<[total_activities |-> walk.total,
                        completed_activities |-> completed,
                        progress_percentage |->
                            ProgressPercentage(completed, walk.total)]>>)
    /\ UNCHANGED <<dbvars, now, extvars, svcvars>>

\* GET /training/plan/{plan_id}/completions
GetPlanCompletions(plan_id) ==
    /\ \E athlete \in get_first_athlete :
        LET plan == ById(training_plans, plan_id)
            status == AccessStatus(plan, athlete)
        IN  response' = Reply("get_completions", plan_id, NoArg, {}, athlete, status,
                AccessDetail(plan, athlete, PlanNotFound),
                IF status = 200
                THEN <<{r \in training_plan_activities : r.plan_id = plan_id}>>
                ELSE None)
    /\ UNCHANGED <<dbvars, now, extvars, svcvars>>

---------------------------------------------------------------------------
(* Analyses: analysis.py 35-67 and 121-153.                                *)

\* POST /analysis/generate: the analysis row of the caller's athlete is
\* committed (ai_analysis_service.py 113-133) when activities were found
\* and the model answered
GenerateAnalysis ==
    /\ now < MaxClock
    /\ now' = now + 1
    /\ \E athlete \in get_first_athlete, activities_found \in BOOLEAN,
          call_ok \in BOOLEAN :
        LET status == IF athlete = {} THEN 500
                      ELSE IF ~activities_found THEN 400
                      ELSE IF ~call_ok THEN 500 ELSE 200
            analysis == [id |-> seq_ids.training_analyses,
                         athlete_id |-> CHOOSE a \in athlete : TRUE]
        IN  /\ response' = Reply("generate_analysis", 0, NoArg, {}, athlete, status, "",
                  IF status = 200 THEN <<analysis>> ELSE None)
            /\ training_analyses' =
                  IF status = 200 THEN training_analyses \cup {analysis}
                  ELSE training_analyses
            /\ seq_ids' = IF status = 200
                          THEN [seq_ids EXCEPT !.training_analyses = @ + 1]
                          ELSE seq_ids
    /\ UNCHANGED <<athletes, training_requests, training_plans,
                   training_plan_activities, stravavars, extvars, svcvars>>

\* GET /analysis/{analysis_id}
GetAnalysis(analysis_id) ==
    /\ \E athlete \in get_first_athlete :
        LET analysis == ById(training_analyses, analysis_id)
            status == AccessStatus(analysis, athlete)
        IN  response' = Reply("get_analysis", analysis_id, NoArg, {}, athlete, status,
                AccessDetail(analysis, athlete, "Analysis not found"),
                IF status = 200 THEN <<CHOOSE r \in analysis : TRUE>> ELSE None)
    /\ UNCHANGED <<dbvars, now, extvars, svcvars>>

---------------------------------------------------------------------------
(* The rest of the environment.                                            *)

\* what the provider tells of an athlete besides the id (username, name,
\* city, ...), and of an activity besides the id
Profiles == {"p", "q"}

ActivityIds == {1, 2}

\* (an optional number is the empty set, None, or the set of the number)
ActivityPayloads == {[name |-> "a", start_date |-> 0, average_speed |-> {3}],
                     [name |-> "b", start_date |-> 1, average_speed |-> {}]}

AthleteData == [id : AthleteIds, profile : Profiles]

ActivityData == [id : ActivityIds, payload : ActivityPayloads]

\* a lap as the provider tells it, and the longest lap list of an activity
LapNames == {"x", "y"}

\* the average_speed the provider tells with a lap: x has one, y has none
LapSpeed(name) == IF name = "x" THEN {3} ELSE {}

MaxLaps == 2

LapsData == UNION {[1..n -> LapNames] : n \in 0..MaxLaps}

\* StravaDBService.save_athlete, lines 27-62: the row of the id is updated
\* when there is one, else a row is added
save_athlete(rows, athlete_data) ==
    LET found == {r \in rows : r.id = athlete_data.id}
    IN  IF found # {}
        THEN LET athlete == CHOOSE r \in found : TRUE
             IN  (rows \ {athlete})
                    \cup {[athlete EXCEPT !.profile = athlete_data.profile]}
        ELSE rows \cup {[id |-> athlete_data.id, profile |-> athlete_data.profile]}

\* an activity row added whether or not the id is stored
InsertActivity(rows, activity_data, athlete_id) ==
    rows \cup {[id |-> activity_data.id, athlete_id |-> athlete_id,
                name |-> activity_data.payload.name,
                start_date |-> activity_data.payload.start_date,
                average_speed |-> activity_data.payload.average_speed]}

\* StravaDBService.save_activity, lines 79-152: the row of the id gets the
\* payload (its athlete_id stays) when there is one, else a row is added
save_activity(rows, activity_data, athlete_id) ==
    LET found == {r \in rows : r.id = activity_data.id}
    IN  IF found # {}
        THEN LET activity == CHOOSE r \in found : TRUE
             IN  (rows \ {activity})
                    \cup {[activity EXCEPT
                              !.name = activity_data.payload.name,
                              !.start_date = activity_data.payload.start_date,
                              !.average_speed =
                                  activity_data.payload.average_speed]}
        ELSE rows \cup {[id |-> activity_data.id, athlete_id |-> athlete_id,
                         name |-> activity_data.payload.name,
                         start_date |-> activity_data.payload.start_date,
                         average_speed |-> activity_data.payload.average_speed]}

\* the commit of line 152 fails on a new activity of an athlete that is not
\* stored: activities.athlete_id is a foreign key (schema.py 60)
SaveActivityRaises(activity_data, athlete_id) ==
    /\ \A r \in activities : r.id # activity_data.id
    /\ athlete_id \notin athletes

\* the laps of a list, as rows of the activity: lines 173-197 (the row's own
\* autoincrement id is left out)
NewLaps(activity_id, laps_data) ==
    {[activity_id |-> activity_id, lap_index |-> k - 1, name |-> laps_data[k],
      average_speed |-> LapSpeed(laps_data[k])] :
        k \in 1..Len(laps_data)}

\* the new laps added to the ones stored
AppendLaps(rows, activity_id, laps_data) ==
    rows \cup NewLaps(activity_id, laps_data)

\* StravaDBService.save_laps, lines 170-199: the activity's laps are deleted
\* and the laps of the list added
save_laps(rows, activity_id, laps_data) ==
    {r \in rows : r.activity_id # activity_id}
        \cup NewLaps(activity_id, laps_data)

\* the commit of line 199 fails on laps of an activity that is not stored:
\* laps.activity_id is a foreign key (schema.py 106)
SaveLapsRaises(activity_id, laps_data) ==
    /\ laps_data # <<>>
    /\ \A r \in activities : r.id # activity_id

\* what a call of a service method was and how it ended: detail is
\* "returned" or "raised"
Outcome(op, id, saw, detail, body) ==
    Reply(op, id, NoArg, saw, {}, 0, detail, body)

\* a sync stores the athlete (strava_db_service.save_athlete, upsert by id)
SaveAthlete(athlete_data) ==
    /\ now < MaxClock
    /\ now' = now + 1
    /\ athletes' = athletes \cup {athlete_data.id}
    /\ athlete_profiles' = save_athlete(athlete_profiles, athlete_data)
    /\ response' = Reply("sync", athlete_data.id, NoArg,
                         [data |-> athlete_data,
                          found |-> {r \in athlete_profiles : r.id = athlete_data.id}],
                         {}, 200, "", None)
    /\ UNCHANGED <<training_requests, training_plans, training_plan_activities,
                   training_analyses, seq_ids, activities, laps, extvars, svcvars>>

\* StravaDBService.save_activity called on a session of its own
SaveActivity(activity_data, athlete_id) ==
    /\ now < MaxClock
    /\ now' = now + 1
    /\ LET raises == SaveActivityRaises(activity_data, athlete_id)
           found == {r \in activities : r.id = activity_data.id}
       IN  /\ activities' = IF raises THEN activities
                            ELSE save_activity(activities, activity_data, athlete_id)
           /\ response' = Outcome("save_activity", activity_data.id,
                              [data |-> activity_data, athlete_id |-> athlete_id,
                               found |-> found],
                              IF raises THEN "raised" ELSE "returned", None)
    /\ UNCHANGED <<athletes, athlete_profiles, laps, training_requests,
                   training_plans, training_plan_activities, training_analyses,
                   seq_ids, extvars, svcvars>>

\* StravaDBService.save_laps called on a session of its own
SaveLaps(activity_id, laps_data) ==
    /\ now < MaxClock
    /\ now' = now + 1
    /\ LET raises == SaveLapsRaises(activity_id, laps_data)
           found == {r \in laps : r.activity_id = activity_id}
       IN  /\ laps' = IF raises THEN laps
                      ELSE save_laps(laps, activity_id, laps_data)
           /\ response' = Outcome("save_laps", activity_id,
                              [data |-> laps_data, found |-> found],
                              IF raises THEN "raised" ELSE "returned", None)
    /\ UNCHANGED <<athletes, athlete_profiles, activities, training_requests,
                   training_plans, training_plan_activities, training_analyses,
                   seq_ids, extvars, svcvars>>

---------------------------------------------------------------------------
(* The cache and the provider reads: services/redis_service.py and         *)
(* services/strava_service.py.  redis_data holds one entry per key, the    *)
(* value as json.dumps wrote it; redis_enabled is _enabled, which only     *)
(* _connect sets.                                                          *)

\* what the provider answers: a payload, of which the empty one is falsy
UpstreamValues == {<<>>, <<"u">>, <<"v">>}

\* a call of _make_request returns a payload or raise_for_status raises
UpstreamOutcomes ==
    [raises : {FALSE}, value : UpstreamValues] \cup {[raises |-> TRUE, value |-> <<>>]}

\* the four cached reads and what each is keyed by
Reads == {"get_athlete", "get_athlete_stats", "get_activity_by_id",
          "get_activity_laps"}

\* get_athlete takes no id; the other reads are followed for one id each
ReadArgs(read) == IF read = "get_athlete" THEN {0} ELSE {1}

\* the cache_key of each read
CacheKey(read, arg) == <<read, arg>>

\* json.dumps and json.loads of a payload
JsonDumps(value) == [json |-> value]

JsonText(text) == text.json

\* a cache answer: a value, or the error the call lets out
CacheAnswer(raised, value) == [raised |-> raised, value |-> value]

\* a get that lets the error of the client out
RedisGetUnguarded(enabled, data, key, fails) ==
    IF fails THEN CacheAnswer(TRUE, None)
    ELSE IF \E e \in data : e.key = key
         THEN CacheAnswer(FALSE, <<JsonText((CHOOSE e \in data : e.key = key).value)>>)
         ELSE CacheAnswer(FALSE, None)

\* RedisService.get: None when the cache is disabled, when the key is
\* missing and when the client raises
RedisGet(enabled, data, key, fails) ==
    IF ~enabled THEN CacheAnswer(FALSE, None)
    ELSE IF fails THEN CacheAnswer(FALSE, None)
    ELSE IF \E e \in data : e.key = key
         THEN CacheAnswer(FALSE, <<JsonText((CHOOSE e \in data : e.key = key).value)>>)
         ELSE CacheAnswer(FALSE, None)

\* RedisService.set: the entry of the key replaced, unless the cache is
\* disabled or the client raises
RedisSet(enabled, data, key, value, fails) ==
    IF ~enabled \/ fails THEN data
    ELSE {e \in data : e.key # key} \cup {[key |-> key, value |-> JsonDumps(value)]}

\* "if cached_data:" of the reads
Truthy(cached) == cached # None /\ cached[1] # <<>>

\* one of the four reads.  upstream: what _make_request does when it is
\* called; get_fails, set_fails: the client raises in get, in set
StravaRead(read, arg) ==
    /\ \E upstream \in UpstreamOutcomes, get_fails \in BOOLEAN, set_fails \in BOOLEAN :
        LET cache_key == CacheKey(read, arg)
            cached_data == RedisGet(redis_enabled, redis_data, cache_key, get_fails)
            saw == [upstream |-> upstream, get_fails |-> get_fails,
                    set_fails |-> set_fails, enabled |-> redis_enabled,
                    stored |-> {e \in redis_data : e.key = cache_key}]
        IN  IF cached_data.raised
            THEN /\ response' = Outcome(read, arg, saw, "cache_error", None)
                 /\ UNCHANGED redis_data
            ELSE IF Truthy(cached_data.value)
            THEN /\ response' = Outcome(read, arg, saw, "returned", cached_data.value)
                 /\ UNCHANGED redis_data
            ELSE IF upstream.raises
            THEN /\ response' = Outcome(read, arg, saw, "raised", None)
                 /\ UNCHANGED redis_data
            ELSE /\ redis_data' = RedisSet(redis_enabled, redis_data, cache_key,
                                           upstream.value, set_fails)
                 /\ response' = Outcome(read, arg, saw, "returned", <<upstream.value>>)
    /\ UNCHANGED <<dbvars, now, extvars, redis_enabled, open_sessions>>

\* the ttl of setex runs out
ExpireKey(read, arg) ==
    /\ \E e \in redis_data : e.key = CacheKey(read, arg)
    /\ redis_data' = {e \in redis_data : e.key # CacheKey(read, arg)}
    /\ UNCHANGED <<dbvars, now, extvars, response, redis_enabled, open_sessions>>

---------------------------------------------------------------------------
(* The sync endpoints: api/v1/strava.py 99-283.  They are followed with    *)
(* the cache off, so that each read of strava_service is a call of the     *)
(* provider (strava_service.py 97, 124, 215).  The stats blob that         *)
(* save_athlete_stats writes is not part of the athlete rows kept here.    *)

\* how a call of the provider ends: a value, the rate-limit error
\* (StravaRateLimitError), or another error
ProviderOutcomes == {"ok", "rate_limit", "error"}

\* the athlete the provider is authenticated for
ProviderAthlete == [id |-> 1, profile |-> "p"]

\* what get_all_activities lists
ListedActivity(id) ==
    [id |-> id,
     payload |-> [name |-> "a", start_date |-> 0, average_speed |-> {3}]]

Listings == {<<>>, <<ListedActivity(1)>>, <<ListedActivity(1), ListedActivity(2)>>}

\* the lap set the provider holds for an activity at the time of a call
ProviderLaps == {<<"x">>, <<"y", "x">>}

\* what goes wrong with one item of the batch: nothing, its save raises, the
\* fetch of its laps raises an ordinary error or the rate-limit error
ItemFaults == {"none", "save_error", "laps_error", "laps_rate_limit"}

LapsOutcome(fault) ==
    CASE fault = "laps_error" -> "error"
      [] fault = "laps_rate_limit" -> "rate_limit"
      [] OTHER -> "ok"

\* one call a handler made, and how it ended
Called(call, id, outcome) == [call |-> call, id |-> id, outcome |-> outcome]

\* StravaDBService.has_laps: the activity has a lap stored
has_laps(rows, activity_id) == \E r \in rows : r.activity_id = activity_id

\* strava.py 122-123 and 211-212: whatever the stats calls raise is logged
StatsHandler(outcome) == "log"

\* strava.py 138-139: whatever the save of an item raises is logged
SaveHandler(outcome) == "log"

\* a handler that logs the rate-limit error like any other
LogEverything(outcome) == "log"

\* strava.py 252-256: the rate-limit error is raised again, another error
\* of the lap fetch is logged
LapsHandler(outcome) == IF outcome = "rate_limit" THEN "raise" ELSE "log"

\* a handler that lets every error of an item out
RaiseEverything(outcome) == "raise"

\* strava.py 259-263: the rate-limit error is raised again, another error
\* of the item is logged
ItemHandler(outcome) == IF outcome = "rate_limit" THEN "raise" ELSE "log"

\* strava.py 145-153, 177-185, 275-283: what the endpoint answers when
\* nothing, the rate-limit error or another error reached its handlers
EndpointStatus(raised) ==
    CASE raised = "" -> 200
      [] raised = "rate_limit" -> 429
      [] OTHER -> 500

\* where a batch stands: the rows committed so far, the activities counted,
\* the calls made, and the error that left the loop
Batch(activity_rows, lap_rows, count, calls, raised) ==
    [activities |-> activity_rows, laps |-> lap_rows, count |-> count,
     calls |-> calls, raised |-> raised]

RECURSIVE SyncActivitiesItems(_, _, _, _, _)

\* sync_activities, lines 132-139, from item i on
SyncActivitiesItems(items, faults, i, st, athlete_id) ==
    IF i > Len(items) \/ st.raised # "" THEN st
    ELSE IF faults[i] = "save_error"
    THEN LET logged == [st EXCEPT !.calls =
                           Append(@, Called("save_activity", items[i].id, "error"))]
         IN  IF SaveHandler("error") = "raise"
             THEN [logged EXCEPT !.raised = "error"]
             ELSE SyncActivitiesItems(items, faults, i + 1, logged, athlete_id)
    ELSE SyncActivitiesItems(items, faults, i + 1,
            [st EXCEPT !.activities = save_activity(@, items[i], athlete_id),
                       !.count = @ + 1,
                       !.calls = Append(@, Called("save_activity", items[i].id, "ok"))],
            athlete_id)

RECURSIVE SyncAllItems(_, _, _, _, _, _, _)

\* sync_all, lines 225-263, from item i on
SyncAllItems(items, faults, laps_now, i, st, athlete_id, include_laps) ==
    IF i > Len(items) \/ st.raised # "" THEN st
    ELSE
    LET activity_id == items[i].id
        is_new_activity == \A r \in st.activities : r.id # activity_id
    IN  IF faults[i] = "save_error"
        THEN LET logged == [st EXCEPT !.calls =
                               Append(@, Called("save_activity", activity_id, "error"))]
             IN  IF ItemHandler("error") = "raise"
                 THEN [logged EXCEPT !.raised = "error"]
                 ELSE SyncAllItems(items, faults, laps_now, i + 1, logged,
                                   athlete_id, include_laps)
        ELSE
        LET saved == [st EXCEPT
                        !.activities = save_activity(@, items[i], athlete_id),
                        !.count = @ + 1,
                        !.calls = Append(@, Called("save_activity", activity_id, "ok"))]
        IN  IF include_laps /\ (is_new_activity \/ ~has_laps(st.laps, activity_id))
            THEN LET outcome == LapsOutcome(faults[i])
                     fetched == [saved EXCEPT !.calls =
                                    Append(@, Called("get_activity_laps",
                                                     activity_id, outcome))]
                 IN  IF outcome = "ok"
                     THEN SyncAllItems(items, faults, laps_now, i + 1,
                              [fetched EXCEPT !.laps =
                                  save_laps(@, activity_id, laps_now[i])],
                              athlete_id, include_laps)
                     ELSE IF LapsHandler(outcome) = "raise"
                             /\ ItemHandler(outcome) = "raise"
                     THEN [fetched EXCEPT !.raised = outcome]
                     ELSE SyncAllItems(items, faults, laps_now, i + 1, fetched,
                                       athlete_id, include_laps)
            ELSE SyncAllItems(items, faults, laps_now, i + 1, saved,
                              athlete_id, include_laps)

\* lines 114-130 and 203-219: the athlete is fetched and saved, the stats
\* are fetched under a handler of their own, the activities are listed
BeforeItems(athlete_outcome, stats_outcome, listing_outcome) ==
    IF athlete_outcome # "ok"
    THEN Batch(activities, laps, 0,
               <<Called("get_athlete", 0, athlete_outcome)>>, athlete_outcome)
    ELSE
    LET with_stats == <<Called("get_athlete", 0, "ok"),
                        Called("get_athlete_stats", ProviderAthlete.id, stats_outcome)>>
    IN  IF stats_outcome # "ok" /\ StatsHandler(stats_outcome) = "raise"
        THEN Batch(activities, laps, 0, with_stats, stats_outcome)
        ELSE Batch(activities, laps, 0,
                   Append(with_stats, Called("get_all_activities", 0, listing_outcome)),
                   IF listing_outcome # "ok" THEN listing_outcome ELSE "")

\* what the calls before the items may do: a call that is not reached
\* has no outcome of its own
Reached(athlete_outcome, stats_outcome, listing_outcome, items) ==
    /\ athlete_outcome # "ok" => stats_outcome = "ok" /\ listing_outcome = "ok"
    /\ listing_outcome # "ok" => items = <<>>
    /\ athlete_outcome # "ok" => items = <<>>

\* the answer of a sync endpoint: SyncResponse, or the HTTPException
SyncReply(op, id, saw, st) ==
    Reply(op, id, NoArg, saw, {}, EndpointStatus(st.raised),
          IF st.raised = "" THEN "" ELSE st.raised,
          IF st.raised = "" THEN <<[synced_count |-> st.count]>> ELSE None)

\* POST /strava/sync/activities
SyncActivities ==
    /\ ~redis_enabled
    /\ \E athlete_outcome \in ProviderOutcomes, stats_outcome \in ProviderOutcomes,
          listing_outcome \in ProviderOutcomes, items \in Listings :
       \E faults \in [1..Len(items) -> {"none", "save_error"}] :
        /\ Reached(athlete_outcome, stats_outcome, listing_outcome, items)
        /\ \E st \in {SyncActivitiesItems(items, faults, 1,
                        BeforeItems(athlete_outcome, stats_outcome, listing_outcome),
                        ProviderAthlete.id)} :
               /\ athlete_profiles' = IF athlete_outcome = "ok"
                                      THEN save_athlete(athlete_profiles, ProviderAthlete)
                                      ELSE athlete_profiles
               /\ athletes' = IF athlete_outcome = "ok"
                              THEN athletes \cup {ProviderAthlete.id} ELSE athletes
               /\ activities' = st.activities
               /\ response' = SyncReply("sync_activities", 0,
                                  [calls |-> st.calls, include_laps |-> FALSE,
                                   items |-> [i \in 1..Len(items) |-> items[i].id],
                                   laps_now |-> <<>>, stored |-> laps], st)
    /\ UNCHANGED <<laps, training_requests, training_plans,
                   training_plan_activities, training_analyses, seq_ids, now,
                   extvars, svcvars>>

\* POST /strava/sync/all
SyncAll(include_laps) ==
    /\ ~redis_enabled
    /\ \E athlete_outcome \in ProviderOutcomes, stats_outcome \in ProviderOutcomes,
          listing_outcome \in ProviderOutcomes, items \in Listings :
       \E faults \in [1..Len(items) -> ItemFaults],
          laps_now \in [1..Len(items) -> ProviderLaps] :
        /\ Reached(athlete_outcome, stats_outcome, listing_outcome, items)
        /\ include_laps \/ \A i \in 1..Len(items) :
              LapsOutcome(faults[i]) = "ok" /\ laps_now[i] = <<"x">>
        /\ \E st \in {SyncAllItems(items, faults, laps_now, 1,
                        BeforeItems(athlete_outcome, stats_outcome, listing_outcome),
                        ProviderAthlete.id, include_laps)} :
               /\ athlete_profiles' = IF athlete_outcome = "ok"
                                      THEN save_athlete(athlete_profiles, ProviderAthlete)
                                      ELSE athlete_profiles
               /\ athletes' = IF athlete_outcome = "ok"
                              THEN athletes \cup {ProviderAthlete.id} ELSE athletes
               /\ activities' = st.activities
               /\ laps' = st.laps
               /\ response' = SyncReply("sync_all", 0,
                                  [calls |-> st.calls, include_laps |-> include_laps,
                                   items |-> [i \in 1..Len(items) |-> items[i].id],
                                   laps_now |-> laps_now, stored |-> laps], st)
    /\ UNCHANGED <<training_requests, training_plans, training_plan_activities,
                   training_analyses, seq_ids, now, extvars, svcvars>>

\* POST /strava/sync/activity/{activity_id}/laps
SyncActivityLaps(activity_id) ==
    /\ ~redis_enabled
    /\ \E outcome \in ProviderOutcomes, laps_now \in ProviderLaps :
        \E raised \in {IF outcome # "ok" THEN outcome
                       ELSE IF SaveLapsRaises(activity_id, laps_now) THEN "error"
                       ELSE ""} :
        \E st \in {Batch(activities,
                         IF raised = "" THEN save_laps(laps, activity_id, laps_now)
                         ELSE laps,
                         Len(laps_now),
                         <<Called("get_activity_laps", activity_id, outcome)>>,
                         raised)} :
            /\ laps' = st.laps
            /\ response' = SyncReply("sync_activity_laps", activity_id,
                               [calls |-> st.calls, include_laps |-> TRUE,
                                items |-> <<activity_id>>,
                                laps_now |-> <<laps_now>>, stored |-> laps], st)
    /\ UNCHANGED <<athletes, athlete_profiles, activities, training_requests,
                   training_plans, training_plan_activities, training_analyses,
                   seq_ids, now, extvars, svcvars>>

---------------------------------------------------------------------------
(* MCPServer: mcp/server.py 26-283.  A time is a count of ticks, a speed a *)
(* whole number of m/s, a pace a quotient of whole numbers.                *)

NoActivitiesFound == "No activities found in the specified period"

ActivityNotFound == "Activity not found"

\* the one number of an optional number that is not None
Value(optional) == CHOOSE v \in optional : TRUE

\* Python's truth of an optional number: not None and not zero
NonZero(optional) == optional # {} /\ 0 \notin optional

\* "x and x > 0"
Positive(optional) == NonZero(optional) /\ Value(optional) > 0

\* a quotient, its denominator positive
Ratio(num, den) == [num |-> num, den |-> den]

Minus(a, b) == Ratio(a.num * b.den - b.num * a.den, a.den * b.den)

\* round(q, 2), in hundredths: the nearest one, of two equally near the even
Round2(q) ==
    LET scaled == 100 * (IF q.num < 0 THEN 0 - q.num ELSE q.num)
        floor == scaled \div q.den
        rest == scaled % q.den
        nearest == IF 2 * rest < q.den THEN floor
                   ELSE IF 2 * rest > q.den THEN floor + 1
                   ELSE IF floor % 2 = 0 THEN floor
                   ELSE floor + 1
    IN  IF q.num < 0 THEN 0 - nearest ELSE nearest

\* "round(x, 2) if x else None" of an optional quotient
Rounded(optional) ==
    IF optional # {} /\ Value(optional).num # 0
    THEN {Round2(Value(optional))} ELSE {}

\* the pace of every speed that is not false, the negative ones included
PaceOfAnySpeed(average_speed) ==
    IF ~NonZero(average_speed) THEN {}
    ELSE IF Value(average_speed) > 0
    THEN {Ratio(1000, Value(average_speed) * 60)}
    ELSE {Ratio(0 - 1000, (0 - Value(average_speed)) * 60)}

\* lines 59-61, 107-109 and 119-121: the pace of a speed, min/km
PaceOf(average_speed) ==
    IF Positive(average_speed) THEN {Ratio(1000, Value(average_speed) * 60)}
    ELSE {}

\* lines 231-236 (and 45-49, 160-163): the athlete's activities that start
\* at the cutoff or later
ActivitiesSince(rows, athlete_id, cutoff_date) ==
    {a \in rows : a.athlete_id = athlete_id /\ a.start_date >= cutoff_date}

\* order_by(Activity.start_date): the lists a query may give the rows in,
\* oldest first
RECURSIVE OldestFirst(_)
OldestFirst(rows) ==
    IF rows = {} THEN {<<>>}
    ELSE UNION {{<<a>> \o rest : rest \in OldestFirst(rows \ {a})} :
                   a \in {r \in rows :
                             \A o \in rows : r.start_date <= o.start_date}}

\* order_by(desc(Activity.start_date)): the same, most recent first
RECURSIVE MostRecentFirst(_)
MostRecentFirst(rows) ==
    IF rows = {} THEN {<<>>}
    ELSE UNION {{<<a>> \o rest : rest \in MostRecentFirst(rows \ {a})} :
                   a \in {r \in rows :
                             \A o \in rows : r.start_date >= o.start_date}}

\* order_by(Lap.lap_index)
RECURSIVE ByLapIndex(_)
ByLapIndex(rows) ==
    IF rows = {} THEN {<<>>}
    ELSE UNION {{<<l>> \o rest : rest \in ByLapIndex(rows \ {l})} :
                   l \in {r \in rows :
                             \A o \in rows : r.lap_index <= o.lap_index}}

RECURSIVE SumOfSpeeds(_)
SumOfSpeeds(speeds) ==
    IF speeds = <<>> THEN 0
    ELSE Value(Head(speeds)) + SumOfSpeeds(Tail(speeds))

\* a first half that takes the middle activity of an odd count
FirstHalfRoundedUp(acts) == SubSeq(acts, 1, (Len(acts) + 1) \div 2)

\* lines 242-243
first_half(acts) == SubSeq(acts, 1, Len(acts) \div 2)

\* line 244
second_half(acts) == SubSeq(acts, Len(acts) \div 2 + 1, Len(acts))

\* lines 246-251
calculate_avg_pace(acts) ==
    LET speeds == SelectSeq([i \in 1..Len(acts) |-> acts[i].average_speed],
                            Positive)
    IN  IF speeds = <<>> THEN {}
        ELSE {Ratio(1000 * Len(speeds), SumOfSpeeds(speeds) * 60)}

\* lines 256-258 (a pace is a positive quotient, never a false value)
PaceChange(first_half_pace, second_half_pace) ==
    IF first_half_pace # {} /\ second_half_pace # {}
    THEN {Minus(Value(second_half_pace), Value(first_half_pace))}
    ELSE {}

\* line 277
PaceTrend(pace_change) ==
    IF pace_change # {} /\ Value(pace_change).num < 0 THEN "improving"
    ELSE IF pace_change # {} /\ Value(pace_change).num > 0 THEN "declining"
    ELSE "stable"

\* lines 241-281: the trends of a list of activities (of their keys the
\* period, the count and the ones on pace are kept)
TrendsOfAnyWindow(acts, days) ==
    LET first_half_pace == calculate_avg_pace(first_half(acts))
        second_half_pace == calculate_avg_pace(second_half(acts))
        pace_change == PaceChange(first_half_pace, second_half_pace)
    IN  [period_days |-> days,
         total_runs |-> Len(acts),
         first_half_avg_pace_min_per_km |-> Rounded(first_half_pace),
         second_half_avg_pace_min_per_km |-> Rounded(second_half_pace),
         pace_change_min_per_km |-> Rounded(pace_change),
         pace_trend |-> PaceTrend(pace_change)]

\* lines 238-281: the error-keyed result of an empty window, else the trends
PerformanceTrends(acts, days) ==
    IF acts = <<>> THEN [error |-> NoActivitiesFound]
    ELSE TrendsOfAnyWindow(acts, days)

\* line 229, SessionLocal(), and line 283, db.close()
OpenSession(n) == n + 1

CloseSession(n) == n - 1

\* the windows asked for: none at all, or longer than any run
Days == {0, MaxClock}

\* get_performance_trends(athlete_id, days).  query_ok: the query of lines
\* 233-236 goes through; when it raises, the finally clause still runs
GetPerformanceTrends(athlete_id, days) ==
    /\ \E query_ok \in BOOLEAN :
       \E acts \in OldestFirst(ActivitiesSince(activities, athlete_id, now - days)) :
        LET opened == OpenSession(open_sessions)
        IN  /\ response' = Outcome("get_performance_trends", athlete_id,
                              [days |-> days, query_ok |-> query_ok,
                               activities |-> acts],
                              IF query_ok THEN "returned" ELSE "raised",
                              IF query_ok THEN <<PerformanceTrends(acts, days)>>
                              ELSE None)
            /\ open_sessions' = CloseSession(opened)
    /\ UNCHANGED <<dbvars, now, extvars, redis_enabled, redis_data>>

\* lines 56-74: the row of an activity in the result (of its keys the id
\* and the pace are kept)
ActivityResult(activity) ==
    [id |-> activity.id,
     pace_min_per_km |-> Rounded(PaceOf(activity.average_speed))]

\* get_activities(athlete_id, days), no sport_type given
GetActivities(athlete_id, days) ==
    /\ \E acts \in MostRecentFirst(ActivitiesSince(activities, athlete_id,
                                                   now - days)) :
        /\ response' = Outcome("get_activities", athlete_id,
                          [days |-> days, activities |-> acts], "returned",
                          <<[i \in 1..Len(acts) |-> ActivityResult(acts[i])]>>)
        /\ open_sessions' = CloseSession(OpenSession(open_sessions))
    /\ UNCHANGED <<dbvars, now, extvars, redis_enabled, redis_data>>

\* lines 105-116: the row of a lap in the result
LapResult(lap) ==
    [lap_number |-> lap.lap_index,
     pace_min_per_km |-> Rounded(PaceOf(lap.average_speed))]

\* get_activity_details(activity_id): lines 92-135
GetActivityDetails(activity_id) ==
    /\ LET found == {a \in activities : a.id = activity_id}
       IN  IF found = {}
           THEN response' = Outcome("get_activity_details", activity_id,
                                [activity |-> found, laps |-> <<>>],
                                "returned", <<[error |-> ActivityNotFound]>>)
           ELSE \E activity \in found :
                \E ls \in ByLapIndex({l \in laps : l.activity_id = activity_id}) :
                response' = Outcome("get_activity_details", activity_id,
                                [activity |-> found, laps |-> ls], "returned",
                                <<[id |-> activity.id,
                                   pace_min_per_km |->
                                       Rounded(PaceOf(activity.average_speed)),
                                   laps |-> [i \in 1..Len(ls) |->
                                                LapResult(ls[i])]]>>)
    /\ open_sessions' = CloseSession(OpenSession(open_sessions))
    /\ UNCHANGED <<dbvars, now, extvars, redis_enabled, redis_data>>

\* timedelta(weeks=1), in ticks
Week == 2

\* the calls of datetime.utcnow() within one get_training_summary(weeks):
\* line 158, then lines 168 and 169 for each week.  A call is far shorter
\* than a tick: the clock shows the tick the call started in, or from some
\* reading on the next one
Readings(weeks) ==
    {[i \in 1..(1 + 2 * weeks) |-> IF i > on_time THEN now + 1 ELSE now] :
        on_time \in 1..(1 + 2 * weeks)}

\* lines 168-169: the bounds of bucket week (0 is the most recent)
WeekStart(readings, week) == readings[2 + 2 * week] - (week + 1) * Week

WeekEnd(readings, week) == readings[3 + 2 * week] - week * Week

\* lines 171-174
WeekActivities(acts, readings, week) ==
    {a \in acts : /\ WeekStart(readings, week) <= a.start_date
                  /\ a.start_date < WeekEnd(readings, week)}

RECURSIVE SumOver(_)
SumOver(rows) ==
    IF rows = {} THEN 0
    ELSE LET a == CHOOSE r \in rows : TRUE
         IN  Value(a.average_speed) + SumOver(rows \ {a})

\* lines 181-186: the pace of the mean of the speeds that are not false
WeekPace(week_activities) ==
    LET speeds == {a \in week_activities : NonZero(a.average_speed)}
    IN  IF speeds # {} /\ SumOver(speeds) > 0
        THEN {Ratio(1000 * Cardinality(speeds), SumOver(speeds) * 60)}
        ELSE {}

\* lines 165-210: the summary (of its keys the count of runs and the weekly
\* rows are kept, of a row's keys the number, the count and the pace)
TrainingSummary(acts, weeks, readings) ==
    [total_runs |-> Cardinality(acts),
     weekly_breakdown |->
        [k \in 1..weeks |->
            [week_number |-> weeks - (k - 1),
             run_count |-> Cardinality(WeekActivities(acts, readings, k - 1)),
             avg_pace_min_per_km |->
                 Rounded(WeekPace(WeekActivities(acts, readings, k - 1)))]]]

\* get_training_summary(athlete_id, weeks)
GetTrainingSummary(athlete_id, weeks) ==
    /\ \E readings \in Readings(weeks) :
        LET acts == ActivitiesSince(activities, athlete_id,
                                    readings[1] - weeks * Week)
        IN  response' = Outcome("get_training_summary", athlete_id,
                            [weeks |-> weeks, readings |-> readings,
                             activities |-> acts], "returned",
                            <<TrainingSummary(acts, weeks, readings)>>)
    /\ open_sessions' = CloseSession(OpenSession(open_sessions))
    /\ UNCHANGED <<dbvars, now, extvars, redis_enabled, redis_data>>

---------------------------------------------------------------------------
(* The extractor step by step (scan, repair, parse, validate), on one      *)
(* completion: generate_training_plan, lines 97-184.                       *)

\* lines 99-151: the three strategies, then the check for a span
LocateSpan ==
    /\ stage = "scan"
    /\ json_text' = FindJsonText(ai_response_text)
    /\ stage' = IF FindJsonText(ai_response_text) = <<>> THEN NoJsonFound
                ELSE "repair"
    /\ UNCHANGED <<ai_response_text, training_plan_json, in_flight>>
    /\ UNCHANGED <<dbvars, now, response, svcvars>>

\* line 159
RepairSpan ==
    /\ stage = "repair"
    /\ json_text' = RemoveTrailingCommas(json_text)
    /\ stage' = "parse"
    /\ UNCHANGED <<ai_response_text, training_plan_json, in_flight>>
    /\ UNCHANGED <<dbvars, now, response, svcvars>>

\* lines 162-180
ParseSpan ==
    /\ stage = "parse"
    /\ LET loaded == JsonLoads(json_text)
       IN  /\ training_plan_json' = IF loaded.ok THEN loaded.val ELSE None
           /\ stage' = IF loaded.ok THEN "validate" ELSE InvalidJson
    /\ UNCHANGED <<ai_response_text, json_text, in_flight>>
    /\ UNCHANGED <<dbvars, now, response, svcvars>>

\* lines 183-184
ValidatePlan ==
    /\ stage = "validate"
    /\ stage' = IF LacksTrainingPlan(training_plan_json) THEN MissingKey
                ELSE "extracted"
    /\ UNCHANGED <<ai_response_text, json_text, training_plan_json, in_flight>>
    /\ UNCHANGED <<dbvars, now, response, svcvars>>

---------------------------------------------------------------------------
(* Specifications.                                                         *)

EmptyStore ==
    /\ athletes = {}
    /\ training_requests = {}
    /\ training_plans = {}
    /\ training_plan_activities = {}
    /\ training_analyses = {}
    /\ athlete_profiles = {}
    /\ activities = {}
    /\ laps = {}
    /\ redis_data = {}
    /\ open_sessions = 0
    /\ in_flight = NoRequests
    /\ seq_ids = [training_requests |-> 1, training_plans |-> 1,
                  training_plan_activities |-> 1, training_analyses |-> 1]
    /\ now = 1
    /\ response = Reply("none", 0, NoArg, {}, {}, 0, "", None)

\* the service over its store, no extraction under way
Init ==
    /\ EmptyStore
    /\ redis_enabled = TRUE
    /\ ai_response_text = <<>>
    /\ stage = "idle"
    /\ json_text = None
    /\ training_plan_json = None

\* a plan, a request and an analysis have ids below MaxClock
Ids == 1..MaxClock

Next ==
    \/ \E a \in AthleteIds : SaveAthlete([id |-> a, profile |-> "p"])
    \/ GenerateTrainingPlan
    \/ \E id \in Ids : GetPlan(id)
    \/ \E id \in Ids : DeletePlan(id)
    \/ \E id \in Ids, w \in WeekNumbers, d \in DayNames,
          i \in ActivityIndexes, c \in BOOLEAN :
            UpdateActivityCompletion(id, w, d, i, c)
    \/ \E id \in Ids : GetPlanProgress(id)
    \/ \E id \in Ids : GetPlanCompletions(id)
    \/ GenerateAnalysis
    \/ \E id \in Ids : GetAnalysis(id)

Spec == Init /\ [][Next]_vars

\* the extractor on each completion
InitExtract ==
    /\ EmptyStore
    /\ redis_enabled = TRUE
    /\ ai_response_text \in Completions
    /\ stage = "scan"
    /\ json_text = None
    /\ training_plan_json = None

NextExtract ==
    \/ LocateSpan
    \/ RepairSpan
    \/ ParseSpan
    \/ ValidatePlan

SpecExtract == InitExtract /\ [][NextExtract]_vars

\* the Strava store under the calls of StravaDBService and the trends read
NextStore ==
    \/ \E d \in AthleteData : SaveAthlete(d)
    \/ \E d \in ActivityData, a \in AthleteIds : SaveActivity(d, a)
    \/ \E id \in ActivityIds, l \in LapsData : SaveLaps(id, l)
    \/ \E a \in AthleteIds, days \in Days : GetPerformanceTrends(a, days)

SpecStore == Init /\ [][NextStore]_vars

\* the reads of the provider over a cache that _connect reached or not
InitCache ==
    /\ EmptyStore
    /\ redis_enabled \in BOOLEAN
    /\ ai_response_text = <<>>
    /\ stage = "idle"
    /\ json_text = None
    /\ training_plan_json = None

NextCache ==
    \/ \E read \in Reads : \E arg \in ReadArgs(read) : StravaRead(read, arg)
    \/ \E read \in Reads : \E arg \in ReadArgs(read) : ExpireKey(read, arg)

SpecCache == InitCache /\ [][NextCache]_vars

\* the sync endpoints over a cache that _connect did not reach
InitSync ==
    /\ EmptyStore
    /\ redis_enabled = FALSE
    /\ ai_response_text = <<>>
    /\ stage = "idle"
    /\ json_text = None
    /\ training_plan_json = None

NextSync ==
    \/ SyncActivities
    \/ \E include_laps \in BOOLEAN : SyncAll(include_laps)
    \/ \E id \in ActivityIds : SyncActivityLaps(id)

SpecSync == InitSync /\ [][NextSync]_vars

\* generations over the completions that carry sections
NextSections ==
    \/ SaveAthlete(ProviderAthlete)
    \/ GenerateWithSections

SpecSections == Init /\ [][NextSections]_vars

\* the tools of the MCP server over a store of activities and laps.  The
\* longest window asked for is MaxWeeks weeks; it starts one tick after
\* time 0
MaxWeeks == 2

Today == MaxWeeks * Week + 1

\* the most activities of a store
MaxRuns == 4

\* the speeds of the activities the trends are taken of
TrendSpeeds == {{}, {0}, {3}, {4}}

\* the speeds of an activity and of a lap: None, zero, negative, positive
Speeds == {{}, {0}, {0 - 1}, {3}, {4}}

StoredActivity(id, start_date, average_speed) ==
    [id |-> id, athlete_id |-> 1, name |-> "a", start_date |-> start_date,
     average_speed |-> average_speed]

\* activities of any speeds, one a tick
StoresBySpeed ==
    {{StoredActivity(i, i, speeds[i]) : i \in 1..Len(speeds)} :
        speeds \in UNION {[1..n -> TrendSpeeds] : n \in 0..MaxRuns}}

\* a few activities of one speed at any times, the tick after Today among
\* them
StoresByDate ==
    {{StoredActivity(d + 1, d, {3}) : d \in dates} :
        dates \in {D \in SUBSET (0..(Today + 1)) : Cardinality(D) <= MaxWeeks}}

\* the laps of one activity, of any speeds
StoredLaps ==
    {{[activity_id |-> 1, lap_index |-> k - 1, name |-> "x",
       average_speed |-> speeds[k]] : k \in 1..Len(speeds)} :
        speeds \in UNION {[1..n -> Speeds] : n \in 0..MaxLaps}}

\* the server over a store that holds the given activities and laps
InitTools(stored) ==
    /\ athletes = {1}
    /\ training_requests = {}
    /\ training_plans = {}
    /\ training_plan_activities = {}
    /\ training_analyses = {}
    /\ athlete_profiles = {}
    /\ \E st \in stored : activities = st[1] /\ laps = st[2]
    /\ redis_data = {}
    /\ open_sessions = 0
    /\ in_flight = NoRequests
    /\ seq_ids = [training_requests |-> 1, training_plans |-> 1,
                  training_plan_activities |-> 1, training_analyses |-> 1]
    /\ now = Today
    /\ response = Reply("none", 0, NoArg, {}, {}, 0, "", None)
    /\ redis_enabled = TRUE
    /\ ai_response_text = <<>>
    /\ stage = "idle"
    /\ json_text = None
    /\ training_plan_json = None

\* the tools that tell paces, over activities and laps of any speeds
InitMcp ==
    InitTools((StoresBySpeed \X {{}})
              \cup ({{StoredActivity(1, Today - 1, speed)} : speed \in Speeds}
                        \X {{}})
              \cup ({{StoredActivity(1, Today - 1, {3})}} \X StoredLaps))

NextMcp ==
    \/ \E a \in AthleteIds, days \in Days : GetActivities(a, days)
    \/ \E id \in ActivityIds : GetActivityDetails(id)
    \/ \E a \in AthleteIds, days \in Days : GetPerformanceTrends(a, days)

SpecMcp == InitMcp /\ [][NextMcp]_vars

\* the weekly summary, over activities at any times
InitSummary == InitTools(StoresByDate \X {{}})

NextSummary ==
    \E a \in AthleteIds, weeks \in 1..MaxWeeks : GetTrainingSummary(a, weeks)

SpecSummary == InitSummary /\ [][NextSummary]_vars

\* the store after an athlete was saved and a plan generated for them
InitRace ==
    /\ athletes = {1}
    /\ athlete_profiles = {[id |-> 1, profile |-> "p"]}
    /\ training_requests = {[id |-> 1, athlete_id |-> 1]}
    /\ training_plans =
          {NewTrainingPlan(1, 1, 1, ExtractionOf[SectionPlan].json, <<>>, <<>>)}
    /\ training_plan_activities = {}
    /\ training_analyses = {}
    /\ activities = {}
    /\ laps = {}
    /\ redis_data = {}
    /\ open_sessions = 0
    /\ in_flight = NoRequests
    /\ seq_ids = [training_requests |-> 2, training_plans |-> 2,
                  training_plan_activities |-> 1, training_analyses |-> 1]
    /\ now = 3
    /\ response = Reply("none", 0, NoArg, {}, {}, 0, "", None)
    /\ redis_enabled = TRUE
    /\ ai_response_text = <<>>
    /\ stage = "idle"
    /\ json_text = None
    /\ training_plan_json = None

\* toggles and deletions of requests that run at the same time
NextRace ==
    \/ \E p \in Requests, plan_id \in {1}, w \in WeekNumbers,
          d \in DayNames, i \in ActivityIndexes, c \in BOOLEAN :
            BeginToggle(p, plan_id, w, d, i, c)
    \/ \E p \in Requests, plan_id \in {1} : BeginDelete(p, plan_id)
    \/ \E p \in Requests : QueryToggle(p)
    \/ \E p \in Requests : CommitToggle(p)
    \/ \E p \in Requests : CommitDelete(p)

SpecRace == InitRace /\ [][NextRace]_vars

---------------------------------------------------------------------------
(* Properties of the extractor, checked under SpecExtract.                 *)

\* the completions of the four shapes of spec 4.3
FourShapes ==
    CleanCompletions \cup CommaCompletions \cup FencedCompletions
        \cup ProseCompletions

\* position i of the text lies inside a string literal
InString(text, i) ==
    Cardinality({k \in 1..(i - 1) : text[k] = "\""}) % 2 = 1

\* some brace of the text stands inside a string literal
BraceInString(text) ==
    \E i \in 1..Len(text) : text[i] \in {"{", "}"} /\ InString(text, i)

HasFence(text) == Find(text, fence, 1) # 0

\* the extraction has not failed, and once the object is parsed its
\* 'training_plan' key is present with a non-empty list
ExtractionSucceeds ==
    /\ stage \notin {NoJsonFound, InvalidJson, MissingKey}
    /\ stage \in {"validate", "extracted"} =>
          /\ HasKey(training_plan_json, training_plan_key)
          /\ GetKey(training_plan_json, training_plan_key).kind = "array"
          /\ Len(GetKey(training_plan_json, training_plan_key).items) > 0

---------------------------------------------------------------------------
(* Properties of the service, checked under Spec.                          *)

\* the last call was a generation for an athlete
Generated == response.op = "generate" /\ response.caller # {}

\* C2: when a generation fails after the request row was committed (the
\* model call, the search for a span, the parse, the check of the key or
\* the write of the plan), the request row is still there afterwards and no
\* plan references it
C2_FailedGenerationKeepsRequest ==
    (Generated /\ response.status # 200) =>
        /\ \E r \in training_requests : r.id = response.id
        /\ \A p \in training_plans : p.request_id # response.id

\* a generation whose plan row could not be written has failed, its request
\* row in the store
C2_PlanWriteFailed ==
    /\ Generated
    /\ response.saw.call_ok
    /\ ~response.saw.commit_ok
    /\ response.status = 500
    /\ ExtractionOf[response.saw.text].error = ""
    /\ \E r \in training_requests : r.id = response.id

\* how the extraction of a text fails: "span", "parse", "key", or "" when
\* it does not
FailureMode(text) ==
    IF FindJsonText(text) = <<>> THEN "span"
    ELSE IF ~JsonLoads(RemoveTrailingCommas(FindJsonText(text))).ok THEN "parse"
    ELSE IF ~HasKey(JsonLoads(RemoveTrailingCommas(FindJsonText(text))).val,
                    training_plan_key) THEN "key"
    ELSE ""

\* the failure each mode is answered with
FailureOf(mode) ==
    IF mode = "span" THEN NoJsonFound
    ELSE IF mode = "parse" THEN InvalidJson
    ELSE MissingKey

\* C3: a completion without a span, with a span that does not parse after
\* the repair, or with a parsed object that lacks 'training_plan' is each
\* answered with a failure of its own, different from the other two; no
\* plan is returned and none is stored for the request
C3_FailureModesDistinct ==
    (Generated /\ response.saw.call_ok
        /\ FailureMode(response.saw.text) # "") =>
        /\ response.status = 400
        /\ response.detail = FailureOf(FailureMode(response.saw.text))
        /\ \A other \in {"span", "parse", "key"} \ {FailureMode(response.saw.text)} :
              response.detail # FailureOf(other)
        /\ response.body = None
        /\ \A p \in training_plans : p.request_id # response.id

\* a completion whose object lacks the key has been answered
C3_MissingKeyAnswered ==
    /\ Generated
    /\ response.saw.call_ok
    /\ FailureMode(response.saw.text) = "key"
    /\ response.detail = MissingKey

\* the last call was a toggle that went through
Toggled == response.op = "update_activity" /\ response.status = 200

\* the rows now stored under the key the last toggle addressed
ToggledRows ==
    FindActivity(training_plan_activities, response.id,
                 response.arg.week_number, response.arg.day,
                 response.arg.activity_index)

\* the last toggle found its key completed: the toggle before it on that
\* key was one to true
FoundCompleted == \E r \in response.saw : r.is_completed

\* C4: after a key was toggled to true and is toggled to true again, exactly
\* one row is stored for it, with is_completed true and completed_at not
\* null
C4_TrueTwiceOneRow ==
    (Toggled /\ response.arg.is_completed /\ FoundCompleted) =>
        /\ Cardinality(ToggledRows) = 1
        /\ \A r \in ToggledRows : r.is_completed /\ r.completed_at # {}

\* a key has been toggled to true a second time
C4_ToggledTrueTwice ==
    /\ Toggled
    /\ response.arg.is_completed
    /\ FoundCompleted
    /\ Cardinality(ToggledRows) = 1

\* C5: after a key was toggled to true and is then toggled to false, its
\* row has is_completed false and completed_at null
C5_TrueThenFalseClears ==
    (Toggled /\ ~response.arg.is_completed /\ FoundCompleted) =>
        /\ Cardinality(ToggledRows) = 1
        /\ \A r \in ToggledRows : ~r.is_completed /\ r.completed_at = {}

\* a completed key has been toggled to false, the row it held a timestamp in
\* now without one
C5_ToggledTrueThenFalse ==
    /\ Toggled
    /\ ~response.arg.is_completed
    /\ \E r \in response.saw : r.is_completed /\ r.completed_at # {}
    /\ \E r \in ToggledRows : r.completed_at = {}

\* C6 as stated: a toggle to true of a key that is already completed leaves
\* completed_at as it was
C6_CompletedAtKeptOnRepeat ==
    (Toggled /\ response.arg.is_completed /\ FoundCompleted) =>
        \A r \in ToggledRows : \E was \in response.saw :
            r.completed_at = was.completed_at

\* the operations that address a record by its id
ByIdOps == {"get_plan", "delete_plan", "update_activity", "get_progress",
            "get_completions", "get_analysis"}

\* the record a by-id call addresses, in the store the call starts from
Addressed(call) ==
    ById(IF call.op = "get_analysis" THEN training_analyses ELSE training_plans,
         call.id)

\* C7: a by-id call on a record of another athlete than the caller's is
\* answered 403 with nothing of the record and leaves every table as it
\* was; a by-id call on an id without a record is answered 404, with
\* another detail than the 403
C7_OwnershipChecked ==
    [][response'.op \in ByIdOps =>
          /\ Addressed(response') = {} =>
                /\ response'.status = 404
                /\ response'.detail # "Access denied"
          /\ (/\ Addressed(response') # {}
              /\ response'.caller # {}
              /\ \E r \in Addressed(response') : r.athlete_id \notin response'.caller) =>
                /\ response'.status = 403
                /\ response'.detail = "Access denied"
                /\ response'.body = None
                /\ UNCHANGED dbvars]_vars

\* a toggle on another athlete's plan has been denied, the plan and its
\* rows in the store
C7_ToggleDenied ==
    /\ response.op = "update_activity"
    /\ response.status = 403
    /\ \E p \in training_plans :
          p.id = response.id /\ p.athlete_id \notin response.caller

\* the last call was a progress report that was answered
Reported == response.op = "get_progress" /\ response.status = 200

\* the plan the last progress call addressed
ReportedPlan == CHOOSE p \in training_plans : p.id = response.id

\* the list under 'training_plan' of a stored tree, [] when the key is missing
WeeksOf(plan) == GetOrEmpty(plan.training_plan_json, training_plan_key)

\* C8: progress_percentage is the hundredth of a percent nearest to
\* completed_activities / total_activities * 100, and 0 when
\* total_activities is 0; a plan with an empty tree is answered, with 0
C8_PercentageRounded ==
    /\ Reported =>
          LET report == response.body[1]
          IN  /\ report.total_activities = 0 => report.progress_percentage = 0
              /\ report.total_activities > 0 =>
                    LET off == report.progress_percentage * report.total_activities
                                   - 10000 * report.completed_activities
                    IN  /\ 2 * off <= report.total_activities
                        /\ 2 * (0 - off) <= report.total_activities
    /\ (/\ response.op = "get_progress"
        /\ response.status \in {200, 500}
        /\ WeeksOf(ReportedPlan) = EmptyList) =>
          /\ Reported
          /\ response.body[1].progress_percentage = 0

\* two of three activities completed are reported as 66.67 percent
C8_TwoOfThree ==
    /\ Reported
    /\ response.body[1].total_activities = 3
    /\ response.body[1].completed_activities = 2
    /\ response.body[1].progress_percentage = 6667

\* the sessions of a stored tree, each as <<week, day>> position
Sessions(plan) ==
    UNION {{<<w, d>> : d \in 1..Len(GetOrEmpty(WeeksOf(plan).items[w], days_key).items)} :
              w \in 1..Len(WeeksOf(plan).items)}

\* C9: total_activities is the number of day entries of the stored tree,
\* summed over its weeks, and completed_activities the number of the plan's
\* rows with is_completed true; a plan without rows is reported with 0
\* completed and 0 percent
C9_CountsRecomputed ==
    Reported =>
        LET report == response.body[1]
            rows == {r \in training_plan_activities : r.plan_id = response.id}
        IN  /\ report.total_activities = Cardinality(Sessions(ReportedPlan))
            /\ report.completed_activities =
                  Cardinality({r \in rows : r.is_completed})
            /\ rows = {} =>
                  /\ report.completed_activities = 0
                  /\ report.progress_percentage = 0

\* a plan of three sessions without rows has been reported
C9_FreshPlanReported ==
    /\ Reported
    /\ \A r \in training_plan_activities : r.plan_id # response.id
    /\ response.body[1].total_activities = 3
    /\ response.body[1].completed_activities = 0
    /\ response.body[1].progress_percentage = 0

\* C10: no two plans reference the same request, and the request a plan
\* references exists
C10_OnePlanPerRequest ==
    /\ \A p \in training_plans : \A q \in training_plans :
          p.request_id = q.request_id => p = q
    /\ \A p \in training_plans :
          \E r \in training_requests : r.id = p.request_id

\* after generations and a deletion a plan is left, more requests than
\* plans in the store
C10_PlanLeftAfterDelete ==
    /\ response.op = "delete_plan"
    /\ response.status = 200
    /\ training_plans # {}
    /\ Cardinality(training_requests) > Cardinality(training_plans)

---------------------------------------------------------------------------
(* Properties of the Strava store, checked under SpecStore.                *)

\* the last call was a save that returned
Saved(op) == response.op = op /\ response.detail = "returned"

\* C16: a save_athlete or save_activity that returns leaves exactly one row
\* of the saved id, carrying the payload of this save, and every row of
\* another id as it was: it adds a row when the id was not stored and adds
\* none when it was
C16_UpsertByExternalId ==
    [][/\ (response'.op = "sync" /\ response'.status = 200) =>
            LET d == response'.saw.data
            IN  /\ {r \in athlete_profiles' : r.id = d.id}
                      = {[id |-> d.id, profile |-> d.profile]}
                /\ {r \in athlete_profiles' : r.id # d.id}
                      = {r \in athlete_profiles : r.id # d.id}
                /\ {r.id : r \in athlete_profiles'} = athletes'
       /\ (response'.op = "save_activity" /\ response'.detail = "returned") =>
            LET d == response'.saw.data
            IN  /\ Cardinality({r \in activities' : r.id = d.id}) = 1
                /\ \A r \in activities' : r.id = d.id =>
                      /\ r.name = d.payload.name
                      /\ r.start_date = d.payload.start_date
                /\ {r \in activities' : r.id # d.id}
                      = {r \in activities : r.id # d.id}]_vars

\* an activity stored under one payload has been saved again under another:
\* one row of the id, with the later payload
C16_ActivitySavedAgain ==
    /\ Saved("save_activity")
    /\ \E was \in response.saw.found : was.name # response.saw.data.payload.name
    /\ \E r \in activities : r.id = response.id
                             /\ r.name = response.saw.data.payload.name
    /\ Cardinality({r \in activities : r.id = response.id}) = 1

\* C17: a save_laps(activity_id, L) that returns leaves as laps of the
\* activity exactly the laps of L, with lap_index 0..|L|-1 in the order of
\* L, and the laps of every other activity as they were
C17_LapsReplaced ==
    [][(response'.op = "save_laps" /\ response'.detail = "returned") =>
          LET L == response'.saw.data
              stored == {r \in laps' : r.activity_id = response'.id}
          IN  /\ Cardinality(stored) = Len(L)
              /\ {r.lap_index : r \in stored} = 0..(Len(L) - 1)
              /\ \A r \in stored : r.name = L[r.lap_index + 1]
              /\ {r \in laps' : r.activity_id # response'.id}
                    = {r \in laps : r.activity_id # response'.id}]_vars

\* an activity with two laps has been given one lap: one lap is stored
C17_ShorterLapsSaved ==
    /\ Saved("save_laps")
    /\ Cardinality(response.saw.found) = 2
    /\ Len(response.saw.data) = 1
    /\ Cardinality({r \in laps : r.activity_id = response.id}) = 1

\* C19: get_performance_trends for an athlete without an activity in the
\* window returns the result keyed 'error' and raises nothing, and no
\* session is left open after any call of it
C19_EmptyWindowReported ==
    response.op = "get_performance_trends" =>
        /\ open_sessions = 0
        /\ (/\ response.saw.query_ok
            /\ ActivitiesSince(activities, response.id,
                               now - response.saw.days) = {}) =>
              /\ response.detail = "returned"
              /\ response.body = <<[error |-> NoActivitiesFound]>>

\* an athlete whose activities all lie before the window has been answered
\* with the error-keyed result
C19_OldActivitiesOnly ==
    /\ response.op = "get_performance_trends"
    /\ response.detail = "returned"
    /\ \E a \in activities : a.athlete_id = response.id
    /\ response.body = <<[error |-> NoActivitiesFound]>>
    /\ open_sessions = 0

---------------------------------------------------------------------------
(* Properties of the cached reads, checked under SpecCache.                *)

\* the last call was a read made while the cache was disabled or its
\* client raised in every operation
ReadWithoutCache ==
    /\ response.op \in Reads
    /\ ~response.saw.enabled \/ (response.saw.get_fails /\ response.saw.set_fails)

\* C15: a read made with the cache disabled, unreachable or failing in
\* every operation returns exactly what the provider returned, raises only
\* when the provider raised, and lets no cache error out
C15_ReadsSurviveCacheLoss ==
    ReadWithoutCache =>
        /\ response.detail # "cache_error"
        /\ ~response.saw.upstream.raises =>
              /\ response.detail = "returned"
              /\ response.body = <<response.saw.upstream.value>>
        /\ response.saw.upstream.raises => response.detail = "raised"

\* the client raised in get and in set while a stale value was cached: the
\* read returned the provider's value, not the stale one
C15_FailingCacheBypassed ==
    /\ ReadWithoutCache
    /\ response.saw.enabled
    /\ response.detail = "returned"
    /\ \E e \in response.saw.stored :
          JsonText(e.value) # response.saw.upstream.value
    /\ response.body = <<response.saw.upstream.value>>

---------------------------------------------------------------------------
(* Properties of the sync endpoints, checked under SpecSync.               *)

BatchOps == {"sync_activities", "sync_all"}

\* the calls the last sync made, and those of them made for an item
CallsMade == response.saw.calls

ItemCalls == {"save_activity", "get_activity_laps"}

\* the calls of one kind that ended one way
CallsThat(call, outcome) ==
    {i \in 1..Len(CallsMade) :
        CallsMade[i].call = call /\ CallsMade[i].outcome = outcome}

\* the place of an activity in the listing of the last sync
PlaceOf(activity_id) ==
    CHOOSE i \in 1..Len(response.saw.items) : response.saw.items[i] = activity_id

\* C12: in sync_all with include_laps, a rate-limit error of a lap fetch is
\* the last thing the batch does: the answer is 429, no call follows the
\* fetch, and no item listed after it gets its activity or laps stored
C12_LapRateLimitAbortsBatch ==
    [][(response'.op = "sync_all" /\ response'.saw.include_laps) =>
          \A i \in 1..Len(response'.saw.calls) :
             (/\ response'.saw.calls[i].call = "get_activity_laps"
              /\ response'.saw.calls[i].outcome = "rate_limit") =>
                /\ response'.status = 429
                /\ i = Len(response'.saw.calls)
                /\ \A j \in 1..Len(response'.saw.items) :
                      (\E k \in 1..(j - 1) :
                          response'.saw.items[k] = response'.saw.calls[i].id) =>
                         /\ {r \in activities' : r.id = response'.saw.items[j]}
                               = {r \in activities : r.id = response'.saw.items[j]}
                         /\ {r \in laps' : r.activity_id = response'.saw.items[j]}
                               = {r \in laps : r.activity_id = response'.saw.items[j]}]_vars

\* the lap fetch of the first of two listed items was rate-limited: 429, and
\* the second item is not stored
C12_RateLimitedAtFirstItem ==
    /\ response.op = "sync_all" /\ response.saw.include_laps
    /\ response.status = 429
    /\ Len(response.saw.items) = 2
    /\ CallsThat("get_activity_laps", "rate_limit") = {Len(CallsMade)}
    /\ CallsMade[Len(CallsMade)].id = response.saw.items[1]
    /\ \A r \in activities : r.id # response.saw.items[2]

\* C13: a sync_activities or sync_all during which a provider call raised
\* the rate-limit error answers 429
C13_RateLimitAlwaysSurfaces ==
    response.op \in BatchOps =>
        ((\E i \in 1..Len(CallsMade) : CallsMade[i].outcome = "rate_limit")
            => response.status = 429)

\* C14: a sync_activities or sync_all whose items raised nothing but
\* ordinary errors answers 200, has a save made for every listed item, has
\* the saved activities stored, and reports as synced_count the number of
\* saves that succeeded
C14_ItemFailureSkipped ==
    (/\ response.op \in BatchOps
     /\ CallsThat("get_all_activities", "ok") # {}
     /\ \A i \in 1..Len(CallsMade) :
           CallsMade[i].call \in ItemCalls => CallsMade[i].outcome # "rate_limit") =>
        /\ response.status = 200
        /\ \A j \in 1..Len(response.saw.items) :
              \E i \in 1..Len(CallsMade) :
                 /\ CallsMade[i].call = "save_activity"
                 /\ CallsMade[i].id = response.saw.items[j]
        /\ \A i \in CallsThat("save_activity", "ok") :
              \E r \in activities : r.id = CallsMade[i].id
        /\ response.body =
              <<[synced_count |-> Cardinality(CallsThat("save_activity", "ok"))]>>

\* the save of the first of two items raised and the lap fetch of the
\* second raised an ordinary error: 200 with a count of one
C14_OneOfTwoSaved ==
    /\ response.op = "sync_all"
    /\ Len(response.saw.items) = 2
    /\ CallsThat("save_activity", "error") = {4}
    /\ CallsThat("get_activity_laps", "error") # {}
    /\ response.status = 200
    /\ response.body = <<[synced_count |-> 1]>>

\* C18: after a sync_all with include_laps or a sync_activity_laps that
\* answers 200, each listed activity whose save and lap fetch raised
\* nothing has as stored laps the lap set the provider held at the call
C18_ResyncReplacesLaps ==
    (/\ response.op \in {"sync_all", "sync_activity_laps"}
     /\ response.saw.include_laps
     /\ response.status = 200) =>
        \A j \in 1..Len(response.saw.items) :
           (\A i \in 1..Len(CallsMade) :
               (CallsMade[i].call \in ItemCalls
                   /\ CallsMade[i].id = response.saw.items[j])
                  => CallsMade[i].outcome = "ok") =>
              {r \in laps : r.activity_id = response.saw.items[j]}
                 = NewLaps(response.saw.items[j], response.saw.laps_now[j])

---------------------------------------------------------------------------
(* The generation without an athlete, checked under Spec.                  *)

\* C20: a generation asked for while no athlete is stored is answered 404
\* with the text of the missing athlete, and leaves no request and no plan
C20_NoAthleteAnswered404 ==
    (response.op = "generate" /\ response.caller = {}) =>
        /\ response.status = 404
        /\ response.detail = AthleteNotFound
        /\ training_requests = {}
        /\ training_plans = {}

---------------------------------------------------------------------------
(* The order of the span strategies, checked under SpecExtract.            *)

\* what each strategy yields on its own: the brace scan inside the fenced
\* block, the brace scan over the raw text, the greedy match
FencedScan(text) ==
    IF CodeBlockMatch(text) = <<>> THEN <<>>
    ELSE BalancedSpan(Strip(CodeBlockMatch(text)))

\* C21: the extractor ends with 'no JSON found' only on a completion on
\* which none of the three strategies yields a span
C21_FailsOnlyWhenAllStrategiesFail ==
    stage = NoJsonFound =>
        /\ FencedScan(ai_response_text) = <<>>
        /\ BalancedSpan(ai_response_text) = <<>>
        /\ RegexFallback(ai_response_text) = <<>>

---------------------------------------------------------------------------
(* The repair pass, checked under SpecExtract.                             *)

\* position i of the text holds a comma that only whitespace separates from
\* a closing brace or bracket
TrailingCommaAt(text, i) ==
    /\ text[i] = ","
    /\ \E j \in (i + 1)..Len(text) :
          /\ text[j] \in {"}", "]"}
          /\ \A k \in (i + 1)..(j - 1) : IsWs(text[k])

\* the text without the characters at the positions of a set
Without(text, dropped) ==
    LET kept == (1..Len(text)) \ dropped
    IN  [k \in 1..Cardinality(kept) |->
            text[CHOOSE p \in kept : Cardinality({q \in kept : q <= p}) = k]]

\* the stages after the repair
Repaired == {"parse", "validate", "extracted", InvalidJson, MissingKey}

\* C22: after the repair the span is the span that was found without
\* exactly the commas that only whitespace separates from a closing brace or
\* bracket, every other character in place; the parse reads the span as the
\* repair left it, failing only on a span that does not parse as it stands;
\* and a plan object whose closing brackets are preceded by trailing commas
\* parses once repaired
C22_RepairDropsTrailingCommasOnly ==
    LET found == FindJsonText(ai_response_text)
    IN  /\ stage \in Repaired =>
              json_text = Without(found,
                             {i \in 1..Len(found) : TrailingCommaAt(found, i)})
        /\ stage = InvalidJson =>
              /\ ~JsonLoads(json_text).ok
              /\ found \notin CommaCompletions
        /\ stage \in {"validate", "extracted", MissingKey} =>
              JsonLoads(json_text).ok

\* a bare plan object with trailing commas has been repaired and parsed:
\* the span is shorter than the completion by its trailing commas
C22_TrailingCommasRepaired ==
    /\ stage = "validate"
    /\ ai_response_text \in CommaCompletions
    /\ Len(json_text) < Len(ai_response_text)
    /\ json_text = Without(ai_response_text,
                      {i \in 1..Len(ai_response_text) :
                          TrailingCommaAt(ai_response_text, i)})

---------------------------------------------------------------------------
(* Sections of a completion, checked under SpecSections.                   *)

\* where a marker occurs in a text
Occurrences(text, marker) ==
    {i \in 1..Len(text) : StartsWithAt(text, i, marker)}

\* the section a text holds between two markers: nothing without the start
\* marker, else what follows its first occurrence up to the first end
\* marker after it, or to the end of the text when there is none, less the
\* whitespace around it
SectionHeld(text, start_marker, end_marker) ==
    IF Occurrences(text, start_marker) = {} THEN <<>>
    ELSE LET from == Min(Occurrences(text, start_marker)) + Len(start_marker)
             ends == {i \in Occurrences(text, end_marker) : i >= from}
         IN  Strip(SubSeq(text, from,
                          IF ends = {} THEN Len(text) ELSE Min(ends) - 1))

\* the plans stored for the request of the last call
PlansOfRequest == {p \in training_plans : p.request_id = response.id}

\* C23: whatever markers the completion holds, a generation whose span is
\* found, parsed and has the key, and whose commit goes through, is answered
\* 200 and its plan is stored; the plan's insights and summary are the
\* sections the completion holds between the markers (empty without the
\* start marker, up to the end of the text without the end marker), the
\* default text standing in for an empty section
C23_SectionsNeverBlockPersistence ==
    (/\ Generated
     /\ response.saw.call_ok
     /\ response.saw.commit_ok
     /\ ExtractionOf[response.saw.text].error = "") =>
        /\ response.status = 200
        /\ PlansOfRequest # {}
        /\ \A p \in PlansOfRequest :
            LET insights == SectionHeld(response.saw.text, insights_marker,
                                        summary_end)
                summary == SectionHeld(response.saw.text, summary_marker,
                                       json_end)
            IN  /\ p.insights = IF insights = <<>> THEN DefaultInsights
                                ELSE insights
                /\ p.summary = IF summary = <<>> THEN DefaultSummary
                               ELSE summary

\* a plan has been stored from a completion whose insights marker is
\* followed by no end marker and that has no summary marker: its insights
\* run to the end of the completion, its summary is the default text
C23_OpenSectionPersisted ==
    /\ Generated
    /\ response.status = 200
    /\ Occurrences(response.saw.text, insights_marker) # {}
    /\ Occurrences(response.saw.text, summary_end) = {}
    /\ \E p \in PlansOfRequest :
        /\ p.insights = Strip(SubSeq(response.saw.text,
                                     Len(insights_marker) + 1,
                                     Len(response.saw.text)))
        /\ p.insights # DefaultInsights
        /\ p.summary = DefaultSummary

---------------------------------------------------------------------------
(* Properties of the MCP tools, checked under SpecMcp and SpecSummary.     *)

\* the places of a list whose activity has a positive speed
Sampled(acts, places) ==
    {i \in places : acts[i].average_speed # {}
                    /\ \A v \in acts[i].average_speed : v > 0}

RECURSIVE SpeedTotal(_, _)
SpeedTotal(acts, places) ==
    IF places = {} THEN 0
    ELSE LET i == CHOOSE p \in places : TRUE
         IN  Value(acts[i].average_speed) + SpeedTotal(acts, places \ {i})

\* the sign of the second-half pace less the first-half pace, the halves
\* given as places of the list: a pace is as the count of the samples over
\* their total.  "none" when a half has no sample
DeltaSign(acts, first, second) ==
    LET c1 == Cardinality(Sampled(acts, first))
        c2 == Cardinality(Sampled(acts, second))
        s1 == SpeedTotal(acts, Sampled(acts, first))
        s2 == SpeedTotal(acts, Sampled(acts, second))
    IN  IF c1 = 0 \/ c2 = 0 THEN "none"
        ELSE IF c2 * s1 < c1 * s2 THEN "negative"
        ELSE IF c2 * s1 > c1 * s2 THEN "positive"
        ELSE "zero"

\* the last call was a get_performance_trends that found activities
TrendsTold ==
    /\ response.op = "get_performance_trends"
    /\ response.saw.query_ok
    /\ response.saw.activities # <<>>

\* C24: of n >= 1 activities, oldest first, the first floor(n/2) make the
\* first half and the others the second; pace_trend is "improving" when
\* both halves have a pace and the second less the first is negative,
\* "declining" when it is positive, "stable" in every other case
C24_TrendFollowsHalves ==
    TrendsTold =>
        LET acts == response.saw.activities
            n == Len(acts)
            sign == DeltaSign(acts, {i \in 1..n : 2 * i <= n},
                              {i \in 1..n : 2 * i > n})
            trends == response.body[1]
        IN  /\ trends.total_runs = n
            /\ trends.pace_trend = "improving" <=> sign = "negative"
            /\ trends.pace_trend = "declining" <=> sign = "positive"
            /\ trends.pace_trend = "stable" <=> sign \in {"zero", "none"}
            /\ trends.first_half_avg_pace_min_per_km = {}
                  <=> Sampled(acts, {i \in 1..n : 2 * i <= n}) = {}
            /\ trends.second_half_avg_pace_min_per_km = {}
                  <=> Sampled(acts, {i \in 1..n : 2 * i > n}) = {}

\* three activities, the first without a speed: the first half has no pace
\* and the trend is stable, though the second of them is slower than the
\* third
C24_OddCountStable ==
    /\ TrendsTold
    /\ Len(response.saw.activities) = 3
    /\ response.saw.activities[1].average_speed = {}
    /\ response.saw.activities[2].average_speed = {3}
    /\ response.saw.activities[3].average_speed = {4}
    /\ response.body[1].pace_trend = "stable"

\* four activities, the later two faster: the trend is improving
C24_EvenCountImproving ==
    /\ TrendsTold
    /\ Len(response.saw.activities) = 4
    /\ response.body[1].pace_trend = "improving"
    /\ response.body[1].first_half_avg_pace_min_per_km # {}


\* the pace told for a speed is as the claim has it: None exactly for a
\* speed that is absent or not positive, else positive and the hundredth
\* nearest to 1000 / (speed * 60)
PaceAsClaimed(average_speed, pace) ==
    IF average_speed = {} \/ \E v \in average_speed : v <= 0
    THEN pace = {}
    ELSE \E v \in average_speed, h \in pace :
            /\ pace = {h}
            /\ h > 0
            /\ 2 * (100 * 1000 - h * v * 60) <= v * 60
            /\ 2 * (h * v * 60 - 100 * 1000) <= v * 60

\* C25: get_activities and get_activity_details tell a pace of None for
\* exactly the activities and laps whose average speed is None, zero or
\* negative, and for the others 1000 / (speed * 60), rounded to hundredths
\* and positive; no call of them raises
C25_PaceOnlyOfPositiveSpeed ==
    /\ response.op = "get_activities" =>
        /\ response.detail = "returned"
        /\ Len(response.body[1]) = Len(response.saw.activities)
        /\ \A i \in 1..Len(response.saw.activities) :
              PaceAsClaimed(response.saw.activities[i].average_speed,
                            response.body[1][i].pace_min_per_km)
    /\ (response.op = "get_activity_details" /\ response.saw.activity # {}) =>
        /\ response.detail = "returned"
        /\ \A a \in response.saw.activity :
              PaceAsClaimed(a.average_speed, response.body[1].pace_min_per_km)
        /\ Len(response.body[1].laps) = Len(response.saw.laps)
        /\ \A i \in 1..Len(response.saw.laps) :
              PaceAsClaimed(response.saw.laps[i].average_speed,
                            response.body[1].laps[i].pace_min_per_km)

\* the details of an activity have been told whose first lap has a negative
\* speed and no pace and whose second lap, at 3 m/s, has the pace 5.56
C25_LapPacesTold ==
    /\ response.op = "get_activity_details"
    /\ Len(response.saw.laps) = 2
    /\ response.saw.laps[1].average_speed = {0 - 1}
    /\ response.body[1].laps[1].pace_min_per_km = {}
    /\ response.saw.laps[2].average_speed = {3}
    /\ response.body[1].laps[2].pace_min_per_km = {556}
    /\ response.body[1].pace_min_per_km = {556}


RECURSIVE RunCounts(_)
RunCounts(weekly) ==
    IF weekly = <<>> THEN 0
    ELSE Head(weekly).run_count + RunCounts(Tail(weekly))

\* C30: get_training_summary(weeks = N) tells N weekly rows, the row of
\* bucket k numbered N - k; the buckets are disjoint, every activity counted
\* in total_runs is counted in exactly one weekly row, and the weekly
\* run_count values sum to total_runs
C30_WeeklyRowsPartitionTotal ==
    response.op = "get_training_summary" =>
        LET summary == response.body[1]
            weeks == response.saw.weeks
            readings == response.saw.readings
            acts == response.saw.activities
        IN  /\ Len(summary.weekly_breakdown) = weeks
            /\ \A k \in 0..(weeks - 1) :
                  summary.weekly_breakdown[k + 1].week_number = weeks - k
            /\ \A k \in 0..(weeks - 1), l \in 0..(weeks - 1) :
                  k < l => WeekEnd(readings, l) <= WeekStart(readings, k)
            /\ summary.total_runs = Cardinality(acts)
            /\ \A a \in acts :
                  Cardinality({k \in 0..(weeks - 1) :
                      a \in WeekActivities(acts, readings, k)}) = 1
            /\ RunCounts(summary.weekly_breakdown) = summary.total_runs

\* the same with the clock at one tick throughout the call and no activity
\* that starts at that tick or later
C30_PartitionOnSteadyClock ==
    (/\ response.op = "get_training_summary"
     /\ \A i \in DOMAIN response.saw.readings : response.saw.readings[i] = now
     /\ \A a \in response.saw.activities : a.start_date < now) =>
        LET summary == response.body[1]
            weeks == response.saw.weeks
            acts == response.saw.activities
        IN  /\ Len(summary.weekly_breakdown) = weeks
            /\ \A k \in 0..(weeks - 1) :
                  summary.weekly_breakdown[k + 1].week_number = weeks - k
            /\ summary.total_runs = Cardinality(acts)
            /\ \A a \in acts :
                  Cardinality({k \in 0..(weeks - 1) :
                      a \in WeekActivities(acts, response.saw.readings, k)}) = 1
            /\ RunCounts(summary.weekly_breakdown) = summary.total_runs

\* an activity that starts at the tick of the call is in the total and in
\* no weekly row, the clock at one tick throughout
C30_RunOutsideEveryWeek ==
    /\ response.op = "get_training_summary"
    /\ \A i \in DOMAIN response.saw.readings : response.saw.readings[i] = now
    /\ \E a \in response.saw.activities : a.start_date >= now
    /\ RunCounts(response.body[1].weekly_breakdown) < response.body[1].total_runs

\* an activity is in two weekly rows: the clock moved between the reading
\* for the start of a week and the reading for the end of the week before
C30_RunInTwoWeeks ==
    /\ response.op = "get_training_summary"
    /\ \A a \in response.saw.activities : a.start_date < now
    /\ RunCounts(response.body[1].weekly_breakdown) > response.body[1].total_runs


---------------------------------------------------------------------------
(* Properties of the completion rows, checked under Spec and SpecRace.     *)

\* C26: whatever toggles were made on a plan, its progress tells no more
\* completed activities than the plan tree has and a percentage between 0
\* and 100
C26_ProgressWithinPlan ==
    (response.op = "get_progress" /\ response.status = 200) =>
        /\ response.body[1].completed_activities
              <= response.body[1].total_activities
        /\ response.body[1].progress_percentage >= 0
        /\ response.body[1].progress_percentage <= 100 * 100


\* C27: in every state every completion row has a completed_at exactly
\* when its is_completed is true, whatever toggles created and updated it
C27_CompletedAtIffCompleted ==
    \A r \in training_plan_activities : r.is_completed <=> r.completed_at # {}

\* a completed row has been toggled back: the call found it stamped and
\* left it not completed and without a completed_at
C27_StampCleared ==
    /\ response.op = "update_activity"
    /\ response.status = 200
    /\ ~response.arg.is_completed
    /\ \E was \in response.saw : was.is_completed /\ was.completed_at # {}
    /\ \E r \in training_plan_activities :
          /\ r.plan_id = response.id
          /\ r.activity_index = response.arg.activity_index
          /\ ~r.is_completed
          /\ r.completed_at = {}


\* the key a toggle under way addresses is the key of the row
SameKey(call, r) ==
    /\ r.plan_id = call.plan_id
    /\ r.week_number = call.arg.week_number
    /\ r.day = call.arg.day
    /\ r.activity_index = call.arg.activity_index

\* request p commits the insert of a row whose key another request has
\* inserted since p's query found none
LosesInsert(p) ==
    /\ in_flight[p].pc = "queried"
    /\ in_flight'[p].pc = "done"
    /\ in_flight[p].found = {}
    /\ \E r \in training_plan_activities : SameKey(in_flight[p], r)

\* C28: however two toggles of one key that both found no row interleave,
\* no state has two completion rows under one key, and the request whose
\* insert comes second is answered an error and leaves the rows as they
\* were
C28_OneRowPerKey ==
    /\ [](\A r \in training_plan_activities, q \in training_plan_activities :
            (/\ r.plan_id = q.plan_id
             /\ r.week_number = q.week_number
             /\ r.day = q.day
             /\ r.activity_index = q.activity_index) => r = q)
    /\ [][\A p \in Requests :
            LosesInsert(p) =>
                /\ in_flight'[p].status = 500
                /\ training_plan_activities' = training_plan_activities]_vars

\* two toggles of one key both found no row; one was answered 200, the
\* other 500, and one row is stored under the key
C28_SecondInsertRefused ==
    /\ \A p \in Requests :
          /\ in_flight[p].pc = "done"
          /\ in_flight[p].op = "update_activity"
          /\ in_flight[p].found = {}
    /\ in_flight[1].arg.activity_index = in_flight[2].arg.activity_index
    /\ in_flight[1].status = 200
    /\ in_flight[2].status = 500
    /\ Cardinality({r \in training_plan_activities :
                       SameKey(in_flight[1], r)}) = 1

\* C29: in every state, under any interleaving of deletions and toggles of
\* a plan, every completion row is of a plan that is stored
C29_RowsOfStoredPlans ==
    \A r \in training_plan_activities :
        \E plan \in training_plans : plan.id = r.plan_id

\* a toggle saw the plan before a deletion removed it and committed after:
\* the deletion was answered 200, the toggle 500, and no row is stored
C29_ToggleAfterDeleteRefused ==
    /\ in_flight[1].pc = "done"
    /\ in_flight[1].op = "update_activity"
    /\ in_flight[1].found = {}
    /\ in_flight[1].status = 500
    /\ in_flight[2].pc = "done"
    /\ in_flight[2].op = "delete_plan"
    /\ in_flight[2].status = 200
    /\ training_plans = {}
    /\ training_plan_activities = {}

=============================================================================
